---- MODULE Spec2Model ----
(***************************************************************************)
(* Model of the job-ranking and match-scoring engine of the Applier        *)
(* backend (aiService.js): skill extraction, match score, multi-factor     *)
(* ranking, resume remodelling and answer improvement.                     *)
(*                                                                         *)
(* JavaScript strings are sequences of one-character strings, so that      *)
(* toLowerCase, includes, split, trim and the regular expressions of the   *)
(* source are computed character by character.  JavaScript numbers are     *)
(* exact fractions [n, d]; d = 0 encodes Infinity (n = 1), -Infinity       *)
(* (n = -1) and NaN (n = 0).                                               *)
(*                                                                         *)
(* Every function of the service is a call: Init draws the arguments from  *)
(* bounded sets (pc = "call") and the function's action stores the value   *)
(* it returns in ret (pc = "done").  The HTTP server keeps state between   *)
(* requests: the rate-limit store, the stored applications and the saved   *)
(* answers; every request handler is an action on that state.              *)
(***************************************************************************)
EXTENDS Integers, Sequences, FiniteSets, TLC

VARIABLES
    pc,     \* "call" before the function has run, "done" after it returned
    fn,     \* the name of the function being called
    args,   \* the arguments of the call (a record)
    ret,    \* <<>> before the call returns, <<value>> after
    clock,          \* Date.now() of the server, in ticks
    rateLimitStore, \* securityMiddleware.js: key -> times of the requests let through
    applications,   \* the Application collection: id -> document
    savedAnswers,   \* User.savedAnswers: the answer documents of the user
    responses       \* the responses the server has sent, oldest first

callVars == <<pc, fn, args, ret>>
serverVars == <<clock, rateLimitStore, applications, savedAnswers, responses>>
vars == <<pc, fn, args, ret, clock, rateLimitStore, applications, savedAnswers, responses>>

\* The server after start-up: an empty rate-limit store, no application, no
\* saved answer, no response sent.
ServerIdle ==
    /\ clock = 0
    /\ rateLimitStore = <<>>
    /\ applications = <<>>
    /\ savedAnswers = <<>>
    /\ responses = <<>>

\* No function call is under way.
CallIdle ==
    /\ pc = "serve"
    /\ fn = ""
    /\ args = <<>>
    /\ ret = <<>>

-----------------------------------------------------------------------------
(* Sequences and sets                                                      *)

RECURSIVE Uniq(_)
\* Array.from(new Set(arr)): first occurrences, in insertion order.
Uniq(arr) ==
    IF arr = <<>> THEN <<>>
    ELSE LET init == Uniq(SubSeq(arr, 1, Len(arr) - 1))
             last == arr[Len(arr)]
         IN  IF \E i \in 1..Len(init) : init[i] = last
             THEN init
             ELSE Append(init, last)

Range(s) == {s[i] : i \in 1..Len(s)}

RECURSIVE SeqsUpTo(_, _)
\* All sequences of at most n elements of S.
SeqsUpTo(S, n) ==
    IF n = 0 THEN {<<>>}
    ELSE LET shorter == SeqsUpTo(S, n - 1)
         IN  shorter \cup {Append(s, x) : s \in shorter, x \in S}

RECURSIVE Concats(_, _)
\* All strings made of at most n pieces of P, one after the other.
Concats(P, n) ==
    IF n = 0 THEN {<<>>}
    ELSE LET shorter == Concats(P, n - 1)
         IN  shorter \cup {s \o p : s \in shorter, p \in P}

RECURSIVE sort(_, _)
\* Array.prototype.sort with the comparator's results cmp[<<a, b>>] (a number:
\* negative puts a first): stable, each element placed after the elements
\* that do not sort after it.
sort(arr, cmp) ==
    IF Len(arr) <= 1 THEN arr
    ELSE LET init == sort(SubSeq(arr, 1, Len(arr) - 1), cmp)
             x == arr[Len(arr)]
             after == {i \in 1..Len(init) : cmp[<<init[i], x>>] > 0}
             pos == IF after = {} THEN Len(init) + 1
                    ELSE CHOOSE i \in after : \A j \in after : i <= j
         IN  SubSeq(init, 1, pos - 1) \o <<x>> \o SubSeq(init, pos, Len(init))

\* How often x occurs in seq.
CountIn(seq, x) == Cardinality({i \in 1..Len(seq) : seq[i] = x})

\* a and b hold the same elements, each as often: b is a permutation of a.
IsPermutation(a, b) ==
    \A x \in Range(a) \cup Range(b) : CountIn(a, x) = CountIn(b, x)

-----------------------------------------------------------------------------
(* JavaScript numbers                                                      *)

Abs(x) == IF x < 0 THEN -x ELSE x
Sign(x) == IF x > 0 THEN 1 ELSE IF x < 0 THEN -1 ELSE 0

RECURSIVE GCD(_, _)
GCD(a, b) == IF b = 0 THEN a ELSE GCD(b, a % b)

\* The number n/d in lowest terms; d = 0 gives Infinity, -Infinity or NaN.
Num(n, d) ==
    IF d = 0 THEN [n |-> Sign(n), d |-> 0]
    ELSE LET s == IF d < 0 THEN -1 ELSE 1
             g == GCD(Abs(n), Abs(d))
         IN  [n |-> (s * n) \div g, d |-> (s * d) \div g]

IntNum(i) == [n |-> i, d |-> 1]
NaN == [n |-> 0, d |-> 0]
IsNaN(x) == x.d = 0 /\ x.n = 0
IsFinite(x) == x.d # 0
IsInteger(x) == x.d = 1

\* a + b
NumAdd(a, b) ==
    IF IsNaN(a) \/ IsNaN(b) THEN NaN
    ELSE IF a.d = 0 /\ b.d = 0 THEN (IF a.n = b.n THEN a ELSE NaN)
    ELSE IF a.d = 0 THEN a
    ELSE IF b.d = 0 THEN b
    ELSE Num(a.n * b.d + b.n * a.d, a.d * b.d)

\* a - b
NumSub(a, b) == NumAdd(a, [n |-> -b.n, d |-> b.d])

\* a * b
NumMul(a, b) ==
    IF IsNaN(a) \/ IsNaN(b) THEN NaN
    ELSE IF a.d = 0 \/ b.d = 0 THEN Num(Sign(a.n) * Sign(b.n), 0)
    ELSE Num(a.n * b.n, a.d * b.d)

\* a / b
NumDiv(a, b) ==
    IF IsNaN(a) \/ IsNaN(b) THEN NaN
    ELSE IF a.d = 0 /\ b.d = 0 THEN NaN
    ELSE IF a.d = 0 THEN Num(a.n * (IF b.n < 0 THEN -1 ELSE 1), 0)
    ELSE IF b.d = 0 THEN IntNum(0)
    ELSE IF b.n = 0 THEN Num(Sign(a.n), 0)
    ELSE Num(a.n * b.d, a.d * b.n)

\* a < b, false when either is NaN
NumLess(a, b) ==
    IF IsNaN(a) \/ IsNaN(b) THEN FALSE
    ELSE IF a.d = 0 /\ b.d = 0 THEN a.n < b.n
    ELSE IF a.d = 0 THEN a.n < 0
    ELSE IF b.d = 0 THEN b.n > 0
    ELSE a.n * b.d < b.n * a.d

NumLeq(a, b) == ~IsNaN(a) /\ ~IsNaN(b) /\ ~NumLess(b, a)

\* Math.round: the nearest integer, halves towards +Infinity.
MathRound(x) ==
    IF x.d = 0 THEN x ELSE IntNum((2 * x.n + x.d) \div (2 * x.d))

\* Math.floor
MathFloor(x) ==
    IF x.d = 0 THEN x ELSE IntNum(x.n \div x.d)

MathMax(a, b) ==
    IF IsNaN(a) \/ IsNaN(b) THEN NaN ELSE IF NumLess(a, b) THEN b ELSE a

MathMin(a, b) ==
    IF IsNaN(a) \/ IsNaN(b) THEN NaN ELSE IF NumLess(b, a) THEN b ELSE a

-----------------------------------------------------------------------------
(* JavaScript strings                                                      *)

LowerOf ==
    [A |-> "a", B |-> "b", C |-> "c", D |-> "d", E |-> "e", F |-> "f",
     G |-> "g", H |-> "h", I |-> "i", J |-> "j", K |-> "k", L |-> "l",
     M |-> "m", N |-> "n", O |-> "o", P |-> "p", Q |-> "q", R |-> "r",
     S |-> "s", T |-> "t", U |-> "u", V |-> "v", W |-> "w", X |-> "x",
     Y |-> "y", Z |-> "z"]

LowerLetters == {LowerOf[c] : c \in DOMAIN LowerOf}
Digits == {"0", "1", "2", "3", "4", "5", "6", "7", "8", "9"}
Whitespace == {" ", "\t", "\n"}
SentenceEnd == {".", "!", "?"}

IsSpace(c) == c \in Whitespace

\* String.prototype.toLowerCase
toLowerCase(text) ==
    [i \in 1..Len(text) |->
        IF text[i] \in DOMAIN LowerOf THEN LowerOf[text[i]] ELSE text[i]]

\* String.prototype.includes
includes(text, sub) ==
    \E i \in 0..(Len(text) - Len(sub)) : SubSeq(text, i + 1, i + Len(sub)) = sub

\* String.prototype.trim
trim(text) ==
    LET keep == {i \in 1..Len(text) : ~IsSpace(text[i])}
    IN  IF keep = {} THEN <<>>
        ELSE SubSeq(text,
                    CHOOSE i \in keep : \A j \in keep : i <= j,
                    CHOOSE i \in keep : \A j \in keep : j <= i)

RECURSIVE SplitFrom(_, _, _, _)
\* text.split(/\s+/) from position i on: cur is the token being read, out
\* the tokens already cut.  A whitespace run cuts once, where it starts.
SplitFrom(text, i, cur, out) ==
    IF i > Len(text) THEN Append(out, cur)
    ELSE IF IsSpace(text[i])
         THEN IF i > 1 /\ IsSpace(text[i - 1])
              THEN SplitFrom(text, i + 1, cur, out)
              ELSE SplitFrom(text, i + 1, <<>>, Append(out, cur))
         ELSE SplitFrom(text, i + 1, Append(cur, text[i]), out)

\* text.split(/\s+/)
splitWhitespace(text) == SplitFrom(text, 1, <<>>, <<>>)

RECURSIVE join(_, _)
\* Array.prototype.join
join(parts, sep) ==
    IF parts = <<>> THEN <<>>
    ELSE IF Len(parts) = 1 THEN parts[1]
    ELSE parts[1] \o sep \o join(Tail(parts), sep)

-----------------------------------------------------------------------------
(* aiService.js: vocabulary and skill extraction                           *)

KNOWN_SKILLS ==
    <<
       <<"j","a","v","a","s","c","r","i","p","t">>,
       <<"t","y","p","e","s","c","r","i","p","t">>,
       <<"n","o","d","e">>,
       <<"r","e","a","c","t">>,
       <<"v","u","e">>,
       <<"a","n","g","u","l","a","r">>,
       <<"e","x","p","r","e","s","s">>,
       <<"m","o","n","g","o">>,
       <<"m","o","n","g","o","d","b">>,
       <<"s","q","l">>,
       <<"p","o","s","t","g","r","e","s">>,
       <<"m","y","s","q","l">>,
       <<"p","y","t","h","o","n">>,
       <<"d","j","a","n","g","o">>,
       <<"f","l","a","s","k">>,
       <<"j","a","v","a">>,
       <<"c","#">>,
       <<"g","o">>,
       <<"r","u","b","y">>,
       <<"p","h","p">>,
       <<"a","w","s">>,
       <<"g","c","p">>,
       <<"a","z","u","r","e">>,
       <<"d","o","c","k","e","r">>,
       <<"k","u","b","e","r","n","e","t","e","s">>,
       <<"t","e","r","r","a","f","o","r","m">>,
       <<"c","i">>,
       <<"c","d">>,
       <<"g","i","t">>,
       <<"t","e","s","t","i","n","g">>,
       <<"j","e","s","t">>,
       <<"c","y","p","r","e","s","s">>,
       <<"p","l","a","y","w","r","i","g","h","t">>,
       <<"h","t","m","l">>,
       <<"c","s","s">>,
       <<"s","a","s","s">>,
       <<"l","e","s","s">>,
       <<"g","r","a","p","h","q","l">>,
       <<"r","e","s","t">>
    >>

\* normalize = (text) => (text || "").toLowerCase()
normalize(text) == toLowerCase(text)

\* uniq = (arr = []) => Array.from(new Set(arr))
uniq(arr) == Uniq(arr)

\* The text is searched as it is, without lower-casing it.
extractJobSkillsCaseSensitive(jobDescription) ==
    Uniq(SelectSeq(KNOWN_SKILLS, LAMBDA skill : includes(jobDescription, skill)))

\* The vocabulary tokens the lower-cased text includes, collected in a Set
\* (insertion order, no repeated entry).
extractJobSkills(jobDescription) ==
    LET text == normalize(jobDescription)
    IN  Uniq(SelectSeq(KNOWN_SKILLS, LAMBDA skill : includes(text, skill)))

-----------------------------------------------------------------------------
(* aiService.js: computeScore                                              *)

\* The size of the job-skill Set: computeScore divides by it.
JobSetSizeTotalOccurrences(jobSkills) == Len(jobSkills)

JobSetSize(jobSkills) == Len(Uniq([i \in 1..Len(jobSkills) |-> normalize(jobSkills[i])]))

computeScore(jobSkills, resumeSkills) ==
    IF Len(jobSkills) = 0 \/ Len(resumeSkills) = 0 THEN IntNum(0)
    ELSE LET jobSet == Uniq([i \in 1..Len(jobSkills) |-> normalize(jobSkills[i])])
             resumeSet == Uniq([i \in 1..Len(resumeSkills) |-> normalize(resumeSkills[i])])
             matched == Len(SelectSeq(jobSet,
                            LAMBDA skill : \E k \in 1..Len(resumeSet) : resumeSet[k] = skill))
             score == MathRound(NumMul(NumDiv(IntNum(matched), IntNum(JobSetSize(jobSkills))),
                                       IntNum(100)))
         IN  MathMax(IntNum(0), MathMin(IntNum(100), score))

\* Words used as inputs.
W_react == <<"r","e","a","c","t">>
W_React == <<"R","e","a","c","t">>
W_node == <<"n","o","d","e">>
W_python == <<"p","y","t","h","o","n">>
W_go == <<"g","o">>
W_sql == <<"s","q","l">>

\* Bounds of the computeScore calls.
MaxJobSkills == 3
MaxResumeSkills == 2
ScoreSkillNames == {W_react, W_React, W_node, W_python}

InitScore ==
    /\ pc = "call"
    /\ fn = "computeScore"
    /\ args \in [jobSkills : SeqsUpTo(ScoreSkillNames, MaxJobSkills),
                 resumeSkills : SeqsUpTo(ScoreSkillNames, MaxResumeSkills)]
    /\ ret = <<>>
    /\ ServerIdle

CallComputeScore ==
    /\ pc = "call"
    /\ fn = "computeScore"
    /\ ret' = <<computeScore(args.jobSkills, args.resumeSkills)>>
    /\ pc' = "done"
    /\ UNCHANGED <<fn, args, serverVars>>

NextScore == CallComputeScore

SpecScore == InitScore /\ [][NextScore]_vars

\* C4: computeScore returns 0 when either sequence is empty and otherwise
\* round(100 * m / d), d the number of distinct lower-cased job skills and m
\* the number of those that equal some lower-cased candidate skill; the
\* result is an integer in [0,100]; {react, node} against {react, python}
\* gives 50.
C4_ComputeScoreFormula ==
    (pc = "done" /\ fn = "computeScore") =>
        LET js == {normalize(s) : s \in Range(args.jobSkills)}
            cs == {normalize(s) : s \in Range(args.resumeSkills)}
            d == Cardinality(js)
            m == Cardinality(js \cap cs)
            r == ret[1]
        IN  /\ IsInteger(r) /\ 0 <= r.n /\ r.n <= 100
            /\ (args.jobSkills = <<>> \/ args.resumeSkills = <<>>) => r.n = 0
            /\ (args.jobSkills # <<>> /\ args.resumeSkills # <<>>) =>
                   /\ 2 * d * r.n <= 200 * m + d
                   /\ 200 * m + d < 2 * d * (r.n + 1)
            /\ (args.jobSkills = <<W_react, W_node>>
                    /\ args.resumeSkills = <<W_react, W_python>>) => r.n = 50

\* C4 witness: a job list that repeats a skill (in another case), scored
\* against a candidate list that matches one of its two distinct skills.
C4_Witness ==
    /\ pc = "done" /\ fn = "computeScore"
    /\ args.jobSkills = <<W_react, W_React, W_node>>
    /\ args.resumeSkills = <<W_React, W_python>>
    /\ ret[1] = IntNum(50)

-----------------------------------------------------------------------------
(* aiService.js: improveAnswer                                             *)

RECURSIVE SentencesFrom(_, _, _, _)
\* answer.split(/(?<=[.!?])\s+/) from position i on: a whitespace run cuts
\* where it directly follows ".", "!" or "?", and is dropped whole.
SentencesFrom(text, i, cur, out) ==
    IF i > Len(text) THEN Append(out, cur)
    ELSE IF IsSpace(text[i]) /\ i > 1 /\ text[i - 1] \in SentenceEnd
         THEN LET rest == {j \in (i + 1)..Len(text) : ~IsSpace(text[j])}
                  next == IF rest = {} THEN Len(text) + 1
                          ELSE CHOOSE j \in rest : \A k \in rest : j <= k
              IN  SentencesFrom(text, next, <<>>, Append(out, cur))
         ELSE SentencesFrom(text, i + 1, Append(cur, text[i]), out)

splitSentences(answer) == SentencesFrom(answer, 1, <<>>, <<>>)

RECURSIVE CollapseFrom(_, _)
\* text.replace(/\s+/g, " ") from position i on.
CollapseFrom(text, i) ==
    IF i > Len(text) THEN <<>>
    ELSE IF IsSpace(text[i])
         THEN IF i > 1 /\ IsSpace(text[i - 1])
              THEN CollapseFrom(text, i + 1)
              ELSE <<" ">> \o CollapseFrom(text, i + 1)
         ELSE <<text[i]>> \o CollapseFrom(text, i + 1)

collapseWhitespace(text) == CollapseFrom(text, 1)

RECURSIVE PunctuateFrom(_, _)
\* text.replace(/([.!?])\s*([a-z])/g, "$1 $2") from position i on.
PunctuateFrom(text, i) ==
    IF i > Len(text) THEN <<>>
    ELSE IF text[i] \in SentenceEnd
         THEN LET rest == {j \in (i + 1)..Len(text) : ~IsSpace(text[j])}
                  next == IF rest = {} THEN Len(text) + 1
                          ELSE CHOOSE j \in rest : \A k \in rest : j <= k
              IN  IF next <= Len(text) /\ text[next] \in LowerLetters
                  THEN <<text[i], " ", text[next]>> \o PunctuateFrom(text, next + 1)
                  ELSE <<text[i]>> \o PunctuateFrom(text, i + 1)
         ELSE <<text[i]>> \o PunctuateFrom(text, i + 1)

standardizePunctuation(text) == PunctuateFrom(text, 1)

\* Step 1: the job skills the trimmed answer mentions.
mentionedJobSkillsOf(answer, jobDescription) ==
    SelectSeq(extractJobSkills(jobDescription),
              LAMBDA skill : includes(normalize(answer), normalize(skill)))

\* Step 2: whether the sentences are reordered, and the text after step 2.
skillSentencesOf(answer, jobDescription) ==
    LET mentioned == mentionedJobSkillsOf(answer, jobDescription)
    IN  SelectSeq(splitSentences(answer),
                  LAMBDA s : \E k \in 1..Len(mentioned) :
                                 includes(normalize(s), normalize(mentioned[k])))

otherSentencesOf(answer, jobDescription) ==
    LET skillSentences == skillSentencesOf(answer, jobDescription)
    IN  SelectSeq(splitSentences(answer),
                  LAMBDA s : ~(\E k \in 1..Len(skillSentences) : skillSentences[k] = s))
\* The reorder step runs whenever some sentence mentions a job skill.
sentencesReorderedWhenAnySkill(answer, jobDescription) ==
    LET sentences == splitSentences(answer)
        skillSentences == skillSentencesOf(answer, jobDescription)
    IN  /\ Len(sentences) > 1
        /\ Len(skillSentences) > 0

sentencesReordered(answer, jobDescription) ==
    LET sentences == splitSentences(answer)
        skillSentences == skillSentencesOf(answer, jobDescription)
    IN  /\ Len(sentences) > 1
        /\ Len(skillSentences) > 0
        /\ Len(skillSentences) < Len(sentences)

\* Steps 2 and 3: the text before the safety check.
transformedAnswer(answer, jobDescription) ==
    LET reordered ==
            IF sentencesReordered(answer, jobDescription)
            THEN join(skillSentencesOf(answer, jobDescription)
                          \o otherSentencesOf(answer, jobDescription), <<" ">>)
            ELSE answer
    IN  standardizePunctuation(collapseWhitespace(trim(reordered)))

\* The safety check never fires.
allWordsExistAlways(answer, improved) == TRUE

\* Step 7: every lower-cased token of improved, of length 2 or more, is a
\* lower-cased token of the answer.
allWordsExist(answer, improved) ==
    LET originalWords == Range(splitWhitespace(normalize(answer)))
        improvedWords == Range(splitWhitespace(normalize(improved)))
    IN  \A word \in improvedWords : Len(word) < 2 \/ word \in originalWords

Min(a, b) == IF a < b THEN a ELSE b
Max(a, b) == IF a > b THEN a ELSE b
\* The base confidence grows by 5 for every mentioned skill, without a cap.
baseConfidenceUncapped(k) == 50 + k * 5

\* let confidence = 50, plus Math.min(20, mentionedJobSkills.length * 5)
\* when a job skill is mentioned.
baseConfidence(k) == 50 + (IF k > 0 THEN Min(20, k * 5) ELSE 0)

\* Step 4: the confidence after the relevance adjustment.
relevanceConfidence(k, confidence) ==
    IF k = 0 THEN Max(30, confidence - 20)
    ELSE IF k >= 3 THEN Min(95, confidence + 15)
    ELSE confidence

\* A revert lowers confidence by 30 without a floor.
revertConfidenceNoFloor(confidence) == confidence - 30

\* confidence = Math.max(20, confidence - 30) of a reverted answer.
revertConfidence(confidence) == Max(20, confidence - 30)

\* An answer without any change note gets no bonus.
wellOptimizedNoBonus(confidence) == confidence

\* confidence = Math.min(100, confidence + 10) of an answer without notes.
wellOptimizedConfidence(confidence) == Min(100, confidence + 10)

improveAnswer(originalAnswer, jobDescription) ==
    IF originalAnswer = <<>>
    THEN [improved |-> <<>>, confidence |-> 0, changes |-> <<>>,
          note |-> "No improvement needed"]
    ELSE
    LET answer == trim(originalAnswer)
        mentionedJobSkills == mentionedJobSkillsOf(answer, jobDescription)
        k == Len(mentionedJobSkills)
        confidence1 == baseConfidence(k)
        reorder == sentencesReordered(answer, jobDescription)
        changes2 ==
            IF reorder
            THEN <<"Reordered sentences to highlight " \o ToString(k)
                       \o " job-relevant skill(s) first">>
            ELSE <<>>
        confidence2 == IF reorder THEN confidence1 + 10 ELSE confidence1
        improved3 == transformedAnswer(answer, jobDescription)
        changes3 ==
            IF improved3 # answer
            THEN Append(changes2, "Cleaned up formatting and spacing")
            ELSE changes2
        confidence4 == relevanceConfidence(k, confidence2)
        changes4 ==
            IF k = 0
            THEN Append(changes3, "No job skills mentioned - improvement limited")
            ELSE IF k >= 3
            THEN Append(changes3, "Answer is highly relevant to job description")
            ELSE changes3
        safe == allWordsExist(answer, improved3)
        improved == IF safe THEN improved3 ELSE answer
        confidence7 == IF safe THEN confidence4 ELSE revertConfidence(confidence4)
        changes7 ==
            IF safe THEN changes4
            ELSE Append(changes4, "Safety check: minimal modification applied")
        changes == IF Len(changes7) = 0
                   THEN <<"Answer is already well-optimized">>
                   ELSE changes7
        confidence == IF Len(changes7) = 0 THEN wellOptimizedConfidence(confidence7)
                      ELSE confidence7
    IN  [type |-> "improvement",
         data |-> [original |-> answer,
                   improved |-> improved,
                   mentionedJobSkills |-> mentionedJobSkills,
                   confidence |-> Max(0, Min(100, confidence)),
                   changes |-> changes,
                   note |-> "Tone and relevance improved without adding new claims"],
         message |-> "Answer improved. Confidence: " \o ToString(confidence) \o "%"]

\* Bounds and inputs of the improveAnswer calls.
MaxAnswerPieces == 4
AnswerPieces ==
    {<<"G","o">>, <<"m","y","s","q","l">>, <<".","x">>, <<".">>, <<" ">>, <<"\n">>}
ImproveJobDescriptions ==
    {<<>>,
     <<"W","e"," ","u","s","e"," ","G","o">>,
     <<"g","o"," ","m","y","s","q","l">>}

InitImprove ==
    /\ pc = "call"
    /\ fn = "improveAnswer"
    /\ args \in [originalAnswer : Concats(AnswerPieces, MaxAnswerPieces),
                 jobDescription : ImproveJobDescriptions]
    /\ ret = <<>>
    /\ ServerIdle

CallImproveAnswer ==
    /\ pc = "call"
    /\ fn = "improveAnswer"
    /\ ret' = <<improveAnswer(args.originalAnswer, args.jobDescription)>>
    /\ pc' = "done"
    /\ UNCHANGED <<fn, args, serverVars>>

NextImprove == CallImproveAnswer

SpecImprove == InitImprove /\ [][NextImprove]_vars

\* The lower-cased whitespace-separated tokens of a text.
TokensOf(text) == Range(splitWhitespace(normalize(text)))

\* Every token of text, of length 2 or more, is a token of the answer.
TokensWithin(text, answer) ==
    \A w \in TokensOf(text) : Len(w) >= 2 => w \in TokensOf(answer)

ImproveDone == pc = "done" /\ fn = "improveAnswer" /\ args.originalAnswer # <<>>

\* C1: for every non-empty answer, every lower-cased token of length >= 2
\* of `improved` is a lower-cased token of the trimmed original answer; and
\* whenever the transformed text (sentences reordered, whitespace and
\* punctuation normalized) holds such a token that the original lacks,
\* `improved` is the original answer as the result reports it (trimmed).
C1_NoFabrication ==
    ImproveDone =>
        LET answer == trim(args.originalAnswer)
            transformed == transformedAnswer(answer, args.jobDescription)
        IN  /\ TokensWithin(ret[1].data.improved, answer)
            /\ ~TokensWithin(transformed, answer) =>
                   /\ ret[1].data.improved = answer
                   /\ ret[1].data.improved = ret[1].data.original

\* C1 witness: the sentences were reordered, the punctuation step then made
\* a token the original lacks, and the answer was reverted.
C1_Witness ==
    /\ ImproveDone
    /\ sentencesReordered(trim(args.originalAnswer), args.jobDescription)
    /\ ~TokensWithin(transformedAnswer(trim(args.originalAnswer), args.jobDescription),
                     trim(args.originalAnswer))
    /\ ret[1].data.improved = trim(args.originalAnswer)
    /\ ret[1].data.improved #
           transformedAnswer(trim(args.originalAnswer), args.jobDescription)

-----------------------------------------------------------------------------
(* aiService.js: remodelResume                                             *)
\* jobSkills.findIndex((s) => normalize(s) === normalize(a)) used as it is:
\* -1 for a skill no job skill matches.
skillSortKeyRaw(jobSkills, a) ==
    LET hits == {i \in 1..Len(jobSkills) : normalize(jobSkills[i]) = normalize(a)}
    IN  IF hits = {} THEN -1
        ELSE (CHOOSE i \in hits : \A j \in hits : i <= j) - 1

\* jobSkills.findIndex((s) => normalize(s) === normalize(a)), -1 read as 999.
skillSortKey(jobSkills, a) ==
    LET hits == {i \in 1..Len(jobSkills) : normalize(jobSkills[i]) = normalize(a)}
    IN  IF hits = {} THEN 999
        ELSE (CHOOSE i \in hits : \A j \in hits : i <= j) - 1

\* (a, b) => (ai === -1 ? 999 : ai) - (bi === -1 ? 999 : bi)
skillComparator(skills, jobSkills) ==
    [p \in Range(skills) \X Range(skills) |->
        skillSortKey(jobSkills, p[1]) - skillSortKey(jobSkills, p[2])]

\* Only the skills that match a job skill are kept.
orderSkillsMatchedOnly(skills, jobSkills) ==
    IF Len(jobSkills) # 0
    THEN SelectSeq(sort(skills, skillComparator(skills, jobSkills)),
                   LAMBDA a : skillSortKey(jobSkills, a) # 999)
    ELSE skills

\* orderedSkills: the skills sorted by the index of the job skill they match.
orderSkills(skills, jobSkills) ==
    IF Len(jobSkills) # 0
    THEN sort(skills, skillComparator(skills, jobSkills))
    ELSE skills

generateChangeSummary(changes) ==
    LET parts1 == IF changes.skillsReordered
                  THEN <<"Prioritized " \o ToString(Len(changes.skillsHighlighted))
                             \o " job-relevant skills">>
                  ELSE <<>>
        parts == IF Len(changes.sectionsReordered) > 0
                 THEN Append(parts1, "Reordered sections for ATS optimization")
                 ELSE parts1
    IN  IF Len(parts) = 0 THEN "No changes needed - resume already optimized"
        ELSE IF Len(parts) = 1 THEN parts[1]
        ELSE parts[1] \o "; " \o parts[2]
\* The matched job skills are listed whether or not the order changed.
skillsHighlightedAlways(jobSkills, orderedSkills, skillsReordered) ==
    SelectSeq(jobSkills,
              LAMBDA s : \E k \in 1..Len(orderedSkills) :
                             normalize(orderedSkills[k]) = normalize(s))

\* changes.skillsHighlighted: initially [], set to the matched job skills
\* inside the branch taken when the skills were reordered.
skillsHighlightedOf(jobSkills, orderedSkills, skillsReordered) ==
    IF skillsReordered
    THEN SelectSeq(jobSkills,
                   LAMBDA s : \E k \in 1..Len(orderedSkills) :
                                  normalize(orderedSkills[k]) = normalize(s))
    ELSE <<>>

remodelResume(resume, jobDescription) ==
    LET originalSkills == uniq(resume.parsedSkills)
        skills == originalSkills
        jobSkills == extractJobSkills(jobDescription)
        orderedSkills == orderSkills(skills, jobSkills)
        skillsReordered == orderedSkills # originalSkills
        skillsHighlighted ==
            skillsHighlightedOf(jobSkills, orderedSkills, skillsReordered)
        sectionsReordered ==
            IF Len(jobSkills) > 0
            THEN <<"summary", "skills (job-prioritized)", "experience">>
            ELSE <<"summary", "skills", "experience">>
        changes == [skillsReordered |-> skillsReordered,
                    skillsHighlighted |-> skillsHighlighted,
                    sectionsReordered |-> sectionsReordered]
        diff == [skillsChanges |-> [original |-> originalSkills,
                                    remodeled |-> orderedSkills,
                                    reordered |-> skillsReordered,
                                    highlighted |-> skillsHighlighted,
                                    added |-> <<>>,
                                    removed |-> <<>>],
                 sectionsOrder |-> [original |-> <<"summary", "skills", "experience">>,
                                    remodeled |-> sectionsReordered],
                 summary |-> generateChangeSummary(changes)]
    IN  [type |-> "remodel",
         data |-> [original |-> [skills |-> originalSkills],
                   remodeled |-> [skills |-> orderedSkills],
                   diff |-> diff],
         message |-> "Resume reordered for ATS optimization using existing data only."]

\* Bounds and inputs of the remodelResume calls.
MaxParsedSkills == 3
RemodelSkillNames == {W_react, W_React, W_python, W_go}
RemodelJobDescriptions ==
    {<<>>,
     <<"G","o"," ","a","n","d"," ","R","e","a","c","t">>,
     <<"p","y","t","h","o","n">>}

InitRemodel ==
    /\ pc = "call"
    /\ fn = "remodelResume"
    /\ args \in [resume : [parsedSkills : SeqsUpTo(RemodelSkillNames, MaxParsedSkills)],
                 jobDescription : RemodelJobDescriptions]
    /\ ret = <<>>
    /\ ServerIdle

CallRemodelResume ==
    /\ pc = "call"
    /\ fn = "remodelResume"
    /\ ret' = <<remodelResume(args.resume, args.jobDescription)>>
    /\ pc' = "done"
    /\ UNCHANGED <<fn, args, serverVars>>

NextRemodel == CallRemodelResume

SpecRemodel == InitRemodel /\ [][NextRemodel]_vars

RemodelDone == pc = "done" /\ fn = "remodelResume"

\* C2 as stated: for every candidate skill list, lists with repeated entries
\* included, the remodeled skill list is a permutation of the input list.
C2_PermutationOfInput ==
    RemodelDone =>
        IsPermutation(args.resume.parsedSkills, ret[1].data.remodeled.skills)

\* C2 as amended: the remodeled skill list holds every distinct skill string
\* of the input exactly once and nothing else (a permutation of the input
\* with repeated entries dropped, which is the list the diff reports as
\* original); for an input without repeated entries it is a permutation of
\* the input.
C2_PermutationOfDistinct ==
    RemodelDone =>
        LET input == args.resume.parsedSkills
            remodeled == ret[1].data.remodeled.skills
        IN  /\ Range(remodeled) = Range(input)
            /\ \A x \in Range(input) : CountIn(remodeled, x) = 1
            /\ IsPermutation(ret[1].data.diff.skillsChanges.original, remodeled)
            /\ (\A x \in Range(input) : CountIn(input, x) = 1) =>
                   IsPermutation(input, remodeled)

\* C2 witness: a list with a repeated entry whose skills were reordered.
C2_Witness ==
    /\ RemodelDone
    /\ \E x \in Range(args.resume.parsedSkills) :
           CountIn(args.resume.parsedSkills, x) = 2
    /\ ret[1].data.diff.skillsChanges.reordered
    /\ Len(ret[1].data.remodeled.skills) = 2

-----------------------------------------------------------------------------
(* aiService.js: calculateSkillMatch                                       *)

\* Only a candidate skill that contains the job skill matches it.
skillMatchesOneWay(skill, userSkill) ==
    includes(normalize(userSkill), normalize(skill))

\* A job skill matches a candidate skill when either contains the other.
skillMatches(skill, userSkill) ==
    \/ includes(normalize(userSkill), normalize(skill))
    \/ includes(normalize(skill), normalize(userSkill))

calculateSkillMatch(jobDescription, resumeSkills) ==
    IF jobDescription = <<>> \/ Len(resumeSkills) = 0 THEN IntNum(0)
    ELSE LET jobSkills == extractJobSkills(jobDescription)
         IN  IF Len(jobSkills) = 0 THEN IntNum(50)
             ELSE LET matchedSkills ==
                          SelectSeq(jobSkills,
                                    LAMBDA skill : \E k \in 1..Len(resumeSkills) :
                                                       skillMatches(skill, resumeSkills[k]))
                  IN  MathRound(NumMul(NumDiv(IntNum(Len(matchedSkills)),
                                              IntNum(Len(jobSkills))),
                                       IntNum(100)))

\* Bounds and inputs of the calculateSkillMatch calls.
MaxUserSkills == 2
W_java == <<"j","a","v","a">>
W_NodeJs == <<"N","o","d","e",".","j","s">>
MatchSkillNames == {W_java, W_NodeJs, W_React, W_python, <<>>}
MatchJobDescriptions ==
    {<<>>,
     <<"H","e","l","l","o"," ","t","e","a","m">>,
     <<"J","a","v","a","S","c","r","i","p","t">>,
     <<"N","o","d","e"," ","a","n","d"," ","R","e","a","c","t">>,
     <<"p","y","t","h","o","n",","," ","G","o",","," ","S","Q","L">>}

InitSkillMatch ==
    /\ pc = "call"
    /\ fn = "calculateSkillMatch"
    /\ args \in [jobDescription : MatchJobDescriptions,
                 resumeSkills : SeqsUpTo(MatchSkillNames, MaxUserSkills)]
    /\ ret = <<>>
    /\ ServerIdle

CallCalculateSkillMatch ==
    /\ pc = "call"
    /\ fn = "calculateSkillMatch"
    /\ ret' = <<calculateSkillMatch(args.jobDescription, args.resumeSkills)>>
    /\ pc' = "done"
    /\ UNCHANGED <<fn, args, serverVars>>

NextSkillMatch == CallCalculateSkillMatch

SpecSkillMatch == InitSkillMatch /\ [][NextSkillMatch]_vars

SkillMatchDone == pc = "done" /\ fn = "calculateSkillMatch"

\* The number of extracted job skills that contain, or are contained in,
\* some lower-cased candidate skill.
MatchedCount(jobDescription, resumeSkills) ==
    Cardinality({i \in 1..Len(extractJobSkills(jobDescription)) :
        \E u \in Range(resumeSkills) :
            LET skill == extractJobSkills(jobDescription)[i]
                lower == toLowerCase(u)
            IN  includes(lower, skill) \/ includes(skill, lower)})

\* r is round(100 * m / n), halves up.
IsRoundedPercent(r, m, n) ==
    /\ IsInteger(r)
    /\ 2 * n * r.n <= 200 * m + n
    /\ 200 * m + n < 2 * n * (r.n + 1)

\* C9 as stated: the skill-match sub-score is 0 whenever the extracted
\* job-skill set is empty or the candidate skill list is empty, and otherwise
\* round(100 * matched / number of extracted job skills), a job skill being
\* matched when it contains, or is contained in, a lower-cased candidate skill.
C9_ZeroWhenNoJobSkills ==
    SkillMatchDone =>
        LET n == Len(extractJobSkills(args.jobDescription))
        IN  IF n = 0 \/ args.resumeSkills = <<>>
            THEN ret[1] = IntNum(0)
            ELSE IsRoundedPercent(ret[1],
                                  MatchedCount(args.jobDescription, args.resumeSkills), n)

\* C9 as amended: the skill-match sub-score is 0 when the job description is
\* empty or the candidate skill list is empty, 50 when a non-empty description
\* yields no job skill, and otherwise round(100 * matched / number of
\* extracted job skills) with the two-way containment match.
C9_NeutralWhenNoJobSkills ==
    SkillMatchDone =>
        LET n == Len(extractJobSkills(args.jobDescription))
        IN  IF args.jobDescription = <<>> \/ args.resumeSkills = <<>>
            THEN ret[1] = IntNum(0)
            ELSE IF n = 0
            THEN ret[1] = IntNum(50)
            ELSE IsRoundedPercent(ret[1],
                                  MatchedCount(args.jobDescription, args.resumeSkills), n)

\* C9 witness: a job skill ("javascript") matched only because it contains
\* the candidate's skill ("java").
C9_Witness ==
    /\ SkillMatchDone
    /\ args.jobDescription = <<"J","a","v","a","S","c","r","i","p","t">>
    /\ args.resumeSkills = <<W_java>>
    /\ ret[1] = IntNum(100)

\* C9 witness of the neutral case: a description without any job skill.
C9_WitnessNeutral ==
    /\ SkillMatchDone
    /\ args.jobDescription # <<>>
    /\ extractJobSkills(args.jobDescription) = <<>>
    /\ args.resumeSkills # <<>>
    /\ ret[1] = IntNum(50)

-----------------------------------------------------------------------------
(* aiService.js: calculateExperienceFit                                    *)

DigitValue ==
    [c \in Digits |->
        CASE c = "0" -> 0 [] c = "1" -> 1 [] c = "2" -> 2 [] c = "3" -> 3
          [] c = "4" -> 4 [] c = "5" -> 5 [] c = "6" -> 6 [] c = "7" -> 7
          [] c = "8" -> 8 [] c = "9" -> 9]

RECURSIVE parseInt(_)
\* parseInt of a run of decimal digits.
parseInt(digits) ==
    IF digits = <<>> THEN 0
    ELSE 10 * parseInt(SubSeq(digits, 1, Len(digits) - 1))
             + DigitValue[digits[Len(digits)]]

\* The first position from j on that holds no whitespace (Len + 1 if none).
SkipSpaces(text, j) ==
    LET rest == {k \in j..Len(text) : ~IsSpace(text[k])}
    IN  IF rest = {} THEN Len(text) + 1
        ELSE CHOOSE k \in rest : \A m \in rest : k <= m

\* The first position from j on that holds no digit (Len + 1 if none).
SkipDigits(text, j) ==
    LET rest == {k \in j..Len(text) : text[k] \notin Digits}
    IN  IF rest = {} THEN Len(text) + 1
        ELSE CHOOSE k \in rest : \A m \in rest : k <= m

\* word stands at position j of text, whatever the case of the letters.
HasAt(text, j, word) ==
    /\ j + Len(word) - 1 <= Len(text)
    /\ toLowerCase(SubSeq(text, j, j + Len(word) - 1)) = word

\* /(\d+)\+?\s*years?\s+of\s+experience/i matches text from position i: the
\* digits of group 1, or <<>> when it does not match there.
yearMatchAt(text, i) ==
    IF i > Len(text) \/ text[i] \notin Digits THEN <<>>
    ELSE LET d == SkipDigits(text, i)
             plus == IF d <= Len(text) /\ text[d] = "+" THEN d + 1 ELSE d
             y == SkipSpaces(text, plus)
             s == IF HasAt(text, y + 4, <<"s">>) THEN y + 5 ELSE y + 4
             o == SkipSpaces(text, s)
             e == SkipSpaces(text, o + 2)
         IN  IF /\ HasAt(text, y, <<"y","e","a","r">>)
                /\ o > s
                /\ HasAt(text, o, <<"o","f">>)
                /\ e > o + 2
                /\ HasAt(text, e, <<"e","x","p","e","r","i","e","n","c","e">>)
             THEN SubSeq(text, i, d - 1)
             ELSE <<>>

\* jobDescription.match(...): group 1 of the leftmost match, <<>> when none.
yearMatch(jobDescription) ==
    LET hits == {i \in 1..Len(jobDescription) : yearMatchAt(jobDescription, i) # <<>>}
    IN  IF hits = {} THEN <<>>
        ELSE yearMatchAt(jobDescription, CHOOSE i \in hits : \A j \in hits : i <= j)

requiredYearsOf(jobDescription) ==
    IF yearMatch(jobDescription) # <<>> THEN parseInt(yearMatch(jobDescription)) ELSE 0

\* The floor of 30 is left out.
experienceScoreNoFloor(requiredYears, yearsOfExperience) ==
    IF requiredYears = 0 THEN IntNum(75)
    ELSE IF yearsOfExperience >= requiredYears THEN IntNum(100)
    ELSE IF yearsOfExperience >= requiredYears - 1 THEN IntNum(85)
    ELSE IF yearsOfExperience >= requiredYears - 2 THEN IntNum(70)
    ELSE IntNum(100 - (requiredYears - yearsOfExperience) * 15)

\* The score for the years required and the years the candidate has.
experienceScore(requiredYears, yearsOfExperience) ==
    IF requiredYears = 0 THEN IntNum(75)
    ELSE IF yearsOfExperience >= requiredYears THEN IntNum(100)
    ELSE IF yearsOfExperience >= requiredYears - 1 THEN IntNum(85)
    ELSE IF yearsOfExperience >= requiredYears - 2 THEN IntNum(70)
    ELSE MathMax(IntNum(30), IntNum(100 - (requiredYears - yearsOfExperience) * 15))

calculateExperienceFit(jobDescription, yearsOfExperience) ==
    experienceScore(requiredYearsOf(jobDescription), yearsOfExperience)

\* Bounds and inputs of the calculateExperienceFit calls.
MaxDescriptionPieces == 4
MaxYears == 4
DescriptionPieces ==
    {<<"5">>, <<"1">>, <<"0">>, <<"+">>,
     <<" ","y","e","a","r","s"," ","o","f"," ","e","x","p","e","r","i","e","n","c","e"," ","r","e","q","u","i","r","e","d">>,
     <<"Y","e","a","r"," "," ","o","f","\n","E","x","p","e","r","i","e","n","c","e">>}

InitExperience ==
    /\ pc = "call"
    /\ fn = "calculateExperienceFit"
    /\ args \in [jobDescription : Concats(DescriptionPieces, MaxDescriptionPieces),
                 yearsOfExperience : 0..MaxYears]
    /\ ret = <<>>
    /\ ServerIdle

CallCalculateExperienceFit ==
    /\ pc = "call"
    /\ fn = "calculateExperienceFit"
    /\ ret' = <<calculateExperienceFit(args.jobDescription, args.yearsOfExperience)>>
    /\ pc' = "done"
    /\ UNCHANGED <<fn, args, serverVars>>

NextExperience == CallCalculateExperienceFit

SpecExperience == InitExperience /\ [][NextExperience]_vars

ExperienceDone == pc = "done" /\ fn = "calculateExperienceFit"

C10_WitnessFloor ==
    /\ ExperienceDone
    /\ requiredYearsOf(args.jobDescription) - args.yearsOfExperience >= 5
    /\ ret[1] = IntNum(30)

-----------------------------------------------------------------------------
(* aiService.js: calculateLocationMatch                                    *)

RECURSIVE SplitCommaFrom(_, _, _, _)
\* text.split(",") from position i on.
SplitCommaFrom(text, i, cur, out) ==
    IF i > Len(text) THEN Append(out, cur)
    ELSE IF text[i] = ","
         THEN SplitCommaFrom(text, i + 1, <<>>, Append(out, cur))
         ELSE SplitCommaFrom(text, i + 1, Append(cur, text[i]), out)

splitComma(text) == SplitCommaFrom(text, 1, <<>>, <<>>)

\* text.split(",")[k]: <<part>>, or <<>> for undefined when there is no
\* such part.  Two undefined parts are equal (undefined === undefined).
commaPart(text, k) ==
    IF k + 1 <= Len(splitComma(text)) THEN <<splitComma(text)[k + 1]>> ELSE <<>>

REMOTE == <<"r","e","m","o","t","e">>

calculateLocationMatch(jobLocation, userLocation) ==
    IF jobLocation = <<>> \/ userLocation = <<>> THEN IntNum(50)
    ELSE LET jobLoc == normalize(jobLocation)
             userLoc == normalize(userLocation)
         IN  IF includes(jobLoc, REMOTE) \/ includes(userLoc, REMOTE) THEN IntNum(80)
             ELSE IF jobLoc = userLoc THEN IntNum(100)
             ELSE IF commaPart(jobLoc, 0) = commaPart(userLoc, 0) THEN IntNum(100)
             ELSE IF commaPart(jobLoc, 1) = commaPart(userLoc, 1) THEN IntNum(70)
             ELSE IntNum(40)

\* Bounds and inputs of the calculateLocationMatch calls.
MaxLocationPieces == 2
LocationPieces ==
    {<<"P","a","r","i","s">>, <<"p","a","r","i","s">>, <<"L","o","n","d","o","n">>, <<"S","a","n"," ","F","r","a","n","c","i","s","c","o">>, <<","," ","C","A">>, <<","," ","N","Y">>, <<"R","e","m","o","t","e"," ">>}

InitLocation ==
    /\ pc = "call"
    /\ fn = "calculateLocationMatch"
    /\ args \in [jobLocation : Concats(LocationPieces, MaxLocationPieces),
                 userLocation : Concats(LocationPieces, MaxLocationPieces)]
    /\ ret = <<>>
    /\ ServerIdle

CallCalculateLocationMatch ==
    /\ pc = "call"
    /\ fn = "calculateLocationMatch"
    /\ ret' = <<calculateLocationMatch(args.jobLocation, args.userLocation)>>
    /\ pc' = "done"
    /\ UNCHANGED <<fn, args, serverVars>>

NextLocation == CallCalculateLocationMatch

SpecLocation == InitLocation /\ [][NextLocation]_vars

LocationDone == pc = "done" /\ fn = "calculateLocationMatch"

\* The positions of the commas of a text.
CommasOf(text) == {i \in 1..Len(text) : text[i] = ","}

\* The part of a text before its first comma (the whole text if none).
BeforeFirstComma(text) ==
    IF CommasOf(text) = {} THEN text
    ELSE SubSeq(text, 1, (CHOOSE i \in CommasOf(text) : \A j \in CommasOf(text) : i <= j) - 1)

\* Both texts have a comma, and their parts after the first comma (up to
\* the next one) are equal.
SamePartAfterComma(a, b) ==
    /\ CommasOf(a) # {}
    /\ CommasOf(b) # {}
    /\ splitComma(a)[2] = splitComma(b)[2]

\* C8: the location sub-score is 50 if either string is missing or empty;
\* otherwise 80 if either contains "remote"; otherwise 100 if the lower-cased
\* strings are equal or their parts before the first comma are equal;
\* otherwise 70 if their parts after the first comma are equal; otherwise 40.
\* Two different comma-free locations score 40, and "San Francisco, CA"
\* against "San Francisco, NY" scores 100.
C8_LocationTable ==
    LocationDone =>
        LET job == toLowerCase(args.jobLocation)
            user == toLowerCase(args.userLocation)
            expected ==
                IF args.jobLocation = <<>> \/ args.userLocation = <<>> THEN 50
                ELSE IF includes(job, REMOTE) \/ includes(user, REMOTE) THEN 80
                ELSE IF job = user \/ BeforeFirstComma(job) = BeforeFirstComma(user)
                THEN 100
                ELSE IF SamePartAfterComma(job, user) THEN 70
                ELSE 40
        IN  ret[1] = IntNum(expected)

\* Two different comma-free locations are scored 70, not 40: neither has a
\* part after a comma, and the two missing parts compare equal.
C8_CommaFreeScores70 ==
    /\ LocationDone
    /\ args.jobLocation = <<"P","a","r","i","s">>
    /\ args.userLocation = <<"L","o","n","d","o","n">>
    /\ ret[1] = IntNum(70)

-----------------------------------------------------------------------------
(* aiService.js: calculateRecency                                          *)

\* Times are counted in hours; a day has 24 of them (1000 * 60 * 60 * 24 ms).
HoursPerDay == 24
\* (now - posted) / (1000 * 60 * 60 * 24) without Math.floor.
daysSincePostedExact(posted, now) ==
    NumDiv(IntNum(now - posted), IntNum(HoursPerDay))

\* Math.floor((now - posted) / (1000 * 60 * 60 * 24))
daysSincePostedOf(posted, now) ==
    MathFloor(NumDiv(IntNum(now - posted), IntNum(HoursPerDay)))

\* jobPostedDate is <<>> when the job has no posted date, <<time>> otherwise;
\* now is the clock reading of new Date().
calculateRecency(jobPostedDate, now) ==
    IF jobPostedDate = <<>> THEN IntNum(50)
    ELSE LET daysSincePosted == daysSincePostedOf(jobPostedDate[1], now)
         IN  IF NumLeq(daysSincePosted, IntNum(7)) THEN IntNum(100)
             ELSE IF NumLeq(daysSincePosted, IntNum(30)) THEN IntNum(85)
             ELSE IF NumLeq(daysSincePosted, IntNum(60)) THEN IntNum(70)
             ELSE IF NumLeq(daysSincePosted, IntNum(90)) THEN IntNum(50)
             ELSE MathMax(IntNum(20),
                          NumSub(IntNum(100), NumDiv(daysSincePosted, IntNum(3))))

-----------------------------------------------------------------------------
(* aiService.js: rankJobs                                                  *)

DefaultWeights ==
    [skillMatch |-> Num(2, 5), experienceFit |-> Num(1, 4),
     location |-> Num(1, 5), recency |-> Num(3, 20)]

RECURSIVE SumOver(_, _)
\* Object.values(weights).reduce((a, b) => a + b, 0) over the keys in keys.
SumOver(weights, keys) ==
    IF keys = {} THEN IntNum(0)
    ELSE LET k == CHOOSE x \in keys : TRUE
         IN  NumAdd(SumOver(weights, keys \ {k}), weights[k])

\* { skillMatch: 0.4, ..., ...customWeights }
mergedWeights(customWeights) == customWeights @@ DefaultWeights

normalizeWeights(customWeights) ==
    LET weights == mergedWeights(customWeights)
        weightSum == SumOver(weights, DOMAIN weights)
    IN  [key \in DOMAIN weights |-> NumDiv(weights[key], weightSum)]

\* The result of a comparator: the sign of a number, NaN counting as 0.
ComparatorSign(x) == IF IsNaN(x) THEN 0 ELSE Sign(x.n)

\* (a, b) => a.rankingScore - b.rankingScore: ascending.
rankComparatorAscending(entries) ==
    [p \in Range(entries) \X Range(entries) |->
        ComparatorSign(NumSub(p[1].rankingScore, p[2].rankingScore))]

\* (a, b) => b.rankingScore - a.rankingScore
rankComparator(entries) ==
    [p \in Range(entries) \X Range(entries) |->
        ComparatorSign(NumSub(p[2].rankingScore, p[1].rankingScore))]

\* The entry .map builds for one job.
scoreJob(job, resumeSkills, yearsOfExp, userLocation, normalizedWeights, now) ==
    LET skillScore == calculateSkillMatch(job.description, resumeSkills)
        expScore == calculateExperienceFit(job.description, yearsOfExp)
        locScore == calculateLocationMatch(job.location, userLocation)
        recScore == calculateRecency(job.postedDate, now)
        totalScore ==
            MathRound(
                NumAdd(NumAdd(NumAdd(NumMul(skillScore, normalizedWeights.skillMatch),
                                     NumMul(expScore, normalizedWeights.experienceFit)),
                              NumMul(locScore, normalizedWeights.location)),
                       NumMul(recScore, normalizedWeights.recency)))
    IN  [rankingScore |-> totalScore,
         scoreBreakdown |-> [skillMatch |-> skillScore,
                             experienceFit |-> expScore,
                             location |-> locScore,
                             recency |-> recScore],
         weights |-> normalizedWeights,
         rank |-> 0] @@ job

rankJobs(jobs, userResume, userLocation, customWeights, now) ==
    IF Len(jobs) = 0 THEN <<>>
    ELSE LET normalizedWeights == normalizeWeights(customWeights)
             scored == [i \in 1..Len(jobs) |->
                           scoreJob(jobs[i], userResume.parsedSkills,
                                    userResume.yearsOfExperience, userLocation,
                                    normalizedWeights, now)]
             sorted == sort(scored, rankComparator(scored))
         IN  [index \in 1..Len(sorted) |-> [rank |-> index] @@ sorted[index]]

\* The clock reading of the calls, in hours.
Now == 12000

\* Bounds and inputs of the rankJobs calls.
MaxJobs == 3
MaxOverrides == 2
WeightKeys == {"skillMatch", "experienceFit", "location", "recency", "bonus"}
WeightValues == {IntNum(0), IntNum(2), IntNum(-1)}
CustomWeightMaps ==
    UNION {[keys -> WeightValues] :
               keys \in {K \in SUBSET WeightKeys : Cardinality(K) <= MaxOverrides}}

JobCatalogue ==
    {[_id |-> 1, title |-> "Frontend A",
      description |-> <<"R","e","a","c","t"," ","d","e","v","e","l","o","p","e","r",","," ","5","+"," ","y","e","a","r","s"," ","o","f"," ","e","x","p","e","r","i","e","n","c","e">>,
      location |-> <<"P","a","r","i","s",","," ","F","R">>, postedDate |-> <<Now - 3 * HoursPerDay - 5>>],
     [_id |-> 2, title |-> "Frontend B",
      description |-> <<"R","e","a","c","t"," ","d","e","v","e","l","o","p","e","r",","," ","5","+"," ","y","e","a","r","s"," ","o","f"," ","e","x","p","e","r","i","e","n","c","e">>,
      location |-> <<"P","a","r","i","s",","," ","F","R">>, postedDate |-> <<Now - 3 * HoursPerDay - 5>>],
     [_id |-> 3, title |-> "Unspecified",
      description |-> <<>>,
      location |-> <<"R","e","m","o","t","e">>, postedDate |-> <<Now - 91 * HoursPerDay>>],
     [_id |-> 4, title |-> "Backend",
      description |-> <<"P","y","t","h","o","n"," ","a","n","d"," ","G","o">>,
      location |-> <<"L","o","n","d","o","n">>, postedDate |-> <<>>]}

JobLists ==
    {jobs \in SeqsUpTo(JobCatalogue, MaxJobs) :
        \A i, j \in 1..Len(jobs) : i # j => jobs[i]._id # jobs[j]._id}

RankResume == [parsedSkills |-> <<W_React, W_NodeJs>>, yearsOfExperience |-> 3]

InitRank ==
    /\ pc = "call"
    /\ fn = "rankJobs"
    /\ args \in [jobs : JobLists,
                 userResume : {RankResume},
                 userLocation : {<<"P","a","r","i","s",","," ","F","R">>},
                 customWeights : CustomWeightMaps,
                 now : {Now}]
    /\ ret = <<>>
    /\ ServerIdle

CallRankJobs ==
    /\ pc = "call"
    /\ fn = "rankJobs"
    /\ ret' = <<rankJobs(args.jobs, args.userResume, args.userLocation,
                         args.customWeights, args.now)>>
    /\ pc' = "done"
    /\ UNCHANGED <<fn, args, serverVars>>

NextRank == CallRankJobs

SpecRank == InitRank /\ [][NextRank]_vars

RankDone == pc = "done" /\ fn = "rankJobs"

SubScoreNames == {"skillMatch", "experienceFit", "location", "recency"}

\* x is an integer in [0,100].
IsScore(x) == IsInteger(x) /\ 0 <= x.n /\ x.n <= 100

\* C3: each of the four sub-scores in a ranked job's scoreBreakdown is an
\* integer in [0,100].
C3_SubScoresAreScores ==
    RankDone =>
        \A i \in 1..Len(ret[1]) : \A k \in SubScoreNames :
            IsScore(ret[1][i].scoreBreakdown[k])

\* C5: for every weight-override map, the four effective weights used to
\* combine the sub-scores sum to 1.
C5_WeightsSumToOne ==
    RankDone =>
        \A i \in 1..Len(ret[1]) :
            SumOver(ret[1][i].weights, SubScoreNames) = IntNum(1)

\* C6: each ranked job's rankingScore is an integer in [0,100] equal to the
\* sum of its four sub-scores, each multiplied by its normalized weight,
\* rounded to the nearest integer.
C6_RankingScoreIsScore ==
    RankDone =>
        \A i \in 1..Len(ret[1]) :
            LET e == ret[1][i]
                weighted == [k \in SubScoreNames |->
                                NumMul(e.scoreBreakdown[k], e.weights[k])]
            IN  /\ IsScore(e.rankingScore)
                /\ e.rankingScore = MathRound(SumOver(weighted, SubScoreNames))

\* The position of a ranked entry's job in the input list.
InputPosition(e) == CHOOSE i \in 1..Len(args.jobs) : args.jobs[i]._id = e._id

\* C7: the sequence rankJobs returns is in non-increasing order of
\* rankingScore (no entry is followed by one with a greater score), and two
\* jobs with equal rankingScore keep the relative order of the input.
C7_SortedAndStable ==
    RankDone =>
        \A i, j \in 1..Len(ret[1]) :
            i < j =>
                /\ ~NumLess(ret[1][i].rankingScore, ret[1][j].rankingScore)
                /\ ret[1][i].rankingScore = ret[1][j].rankingScore =>
                       InputPosition(ret[1][i]) < InputPosition(ret[1][j])

\* A caller's extra key takes a share of the normalization: with
\* { bonus: 2 } the four weights sum to 1/3.
C5_ExtraKeyShrinksWeights ==
    /\ RankDone
    /\ args.customWeights = [bonus |-> IntNum(2)]
    /\ Len(ret[1]) > 0
    /\ SumOver(ret[1][1].weights, SubScoreNames) = Num(1, 3)

\* A negative weight takes the rankingScore out of [0,100]: with
\* { skillMatch: -1 } the four weights sum to 1 and a job is scored 119.
C6_NegativeWeightOutOfRange ==
    /\ RankDone
    /\ args.customWeights = [skillMatch |-> IntNum(-1)]
    /\ Len(ret[1]) > 0
    /\ SumOver(ret[1][1].weights, SubScoreNames) = IntNum(1)
    /\ ret[1][1].rankingScore = IntNum(119)

\* A job posted 91 days before the call has the recency sub-score 209/3.
C3_RecencyNotInteger ==
    /\ RankDone
    /\ \E i \in 1..Len(ret[1]) :
           /\ ret[1][i].postedDate = <<Now - 91 * HoursPerDay>>
           /\ ret[1][i].scoreBreakdown.recency = Num(209, 3)

\* C7 witness: three jobs, the lowest-scored first in the input; the output
\* puts it last and keeps the two equally scored jobs in their input order.
C7_Witness ==
    /\ RankDone
    /\ Len(ret[1]) = 3
    /\ IsFinite(ret[1][1].rankingScore)
    /\ ret[1][1].rankingScore = ret[1][2].rankingScore
    /\ NumLess(ret[1][3].rankingScore, ret[1][2].rankingScore)
    /\ InputPosition(ret[1][3]) = 1
    /\ InputPosition(ret[1][1]) = 2
    /\ InputPosition(ret[1][2]) = 3

-----------------------------------------------------------------------------
(* calculateRecency as a call of its own.                                  *)

\* Postings are up to MaxAgeDays days (and some hours) old, or up to
\* MaxFutureHours hours in the future.
MaxAgeDays == 245
MaxFutureHours == 30
MaxAgeGap == 3
PostedDates ==
    {<<>>} \cup {<<Now - h>> : h \in (-MaxFutureHours)..(MaxAgeDays * HoursPerDay + 5)}

InitRecency ==
    /\ pc = "call"
    /\ fn = "calculateRecency"
    /\ args \in [jobPostedDate : PostedDates, now : {Now}]
    /\ ret = <<>>
    /\ ServerIdle

CallCalculateRecency ==
    /\ pc = "call"
    /\ fn = "calculateRecency"
    /\ ret' = <<calculateRecency(args.jobPostedDate, args.now)>>
    /\ pc' = "done"
    /\ UNCHANGED <<fn, args, serverVars>>

NextRecency == CallCalculateRecency

SpecRecency == InitRecency /\ [][NextRecency]_vars

RecencyDone == pc = "done" /\ fn = "calculateRecency"

\* Whole days between the posting and the call (rounded down).
WholeDaysSincePosting == (args.now - args.jobPostedDate[1]) \div HoursPerDay

\* C11: the recency sub-score is 50 when the job has no posted date;
\* otherwise, with d the whole days since posting, 100 if d <= 7, 85 if
\* d <= 30, 70 if d <= 60, 50 if d <= 90 and max(20, 100 - d/3) if d > 90.
C11_RecencyTable ==
    RecencyDone =>
        IF args.jobPostedDate = <<>> THEN ret[1] = IntNum(50)
        ELSE LET d == WholeDaysSincePosting
             IN  IF d <= 7 THEN ret[1] = IntNum(100)
                 ELSE IF d <= 30 THEN ret[1] = IntNum(85)
                 ELSE IF d <= 60 THEN ret[1] = IntNum(70)
                 ELSE IF d <= 90 THEN ret[1] = IntNum(50)
                 ELSE IF 300 - d >= 60 THEN ret[1] = Num(300 - d, 3)
                 ELSE ret[1] = IntNum(20)

\* C11 witness: a posting seven days and five hours old still counts seven
\* whole days and scores 100.
C11_Witness ==
    /\ RecencyDone
    /\ args.jobPostedDate = <<Now - 7 * HoursPerDay - 5>>
    /\ ret[1] = IntNum(100)

\* A posting 241 days old is scored at the floor of 20.
C11_WitnessFloor ==
    /\ RecencyDone
    /\ args.jobPostedDate # <<>>
    /\ WholeDaysSincePosting = 241
    /\ ret[1] = IntNum(20)

-----------------------------------------------------------------------------
(* remodelResume: the order of the remodeled skills.                       *)

\* The position of the first occurrence of skill x in the candidate's list.
FirstPosition(x) ==
    CHOOSE i \in 1..Len(args.resume.parsedSkills) :
        /\ args.resume.parsedSkills[i] = x
        /\ \A j \in 1..(i - 1) : args.resume.parsedSkills[j] # x

\* The job skills a candidate skill equals, case-insensitively, as positions
\* of the extracted job-skill list.
MatchPositions(x) ==
    LET jobSkills == extractJobSkills(args.jobDescription)
    IN  {i \in 1..Len(jobSkills) : toLowerCase(jobSkills[i]) = toLowerCase(x)}

IsMatched(x) == MatchPositions(x) # {}

\* The least position of a job skill that x matches.
MatchIndex(x) == CHOOSE i \in MatchPositions(x) : \A j \in MatchPositions(x) : i <= j

\* x and y have the same sort rank: both unmatched, or the same match index.
SameRank(x, y) ==
    \/ ~IsMatched(x) /\ ~IsMatched(y)
    \/ IsMatched(x) /\ IsMatched(y) /\ MatchIndex(x) = MatchIndex(y)

C12_WitnessUnchanged ==
    /\ RemodelDone
    /\ extractJobSkills(args.jobDescription) = <<>>
    /\ Len(args.resume.parsedSkills) = 3
    /\ ret[1].data.remodeled.skills = args.resume.parsedSkills

-----------------------------------------------------------------------------
(* remodelResume: the highlighted skills of the diff.                      *)

\* The job skills that appear, case-insensitively, among the candidate's
\* skills, in the order of the extracted job-skill list.
JobSkillsOfCandidate ==
    SelectSeq(extractJobSkills(args.jobDescription),
              LAMBDA s : \E k \in 1..Len(args.resume.parsedSkills) :
                             toLowerCase(args.resume.parsedSkills[k]) = toLowerCase(s))

\* C13 as stated: the highlighted list is exactly the job skills that appear
\* among the candidate's skills, in job order, whether or not the skill
\* order changed.
C13_HighlightedAlways ==
    RemodelDone =>
        ret[1].data.diff.skillsChanges.highlighted = JobSkillsOfCandidate

\* C13 as amended: when the skill order changed, the highlighted list is
\* exactly the job skills that appear among the candidate's skills, in job
\* order; when the order did not change, the highlighted list is empty.
C13_HighlightedWhenReordered ==
    RemodelDone =>
        LET changes == ret[1].data.diff.skillsChanges
        IN  /\ changes.reordered = (changes.remodeled # changes.original)
            /\ changes.highlighted =
                   IF changes.reordered THEN JobSkillsOfCandidate ELSE <<>>

\* C13 witness: the candidate's matching skills are already in job order,
\* nothing is reordered and nothing is highlighted.
C13_Witness ==
    /\ RemodelDone
    /\ Len(JobSkillsOfCandidate) = 2
    /\ ~ret[1].data.diff.skillsChanges.reordered
    /\ ret[1].data.diff.skillsChanges.highlighted = <<>>

\* The skills were reordered and two job skills are highlighted.
C13_WitnessReordered ==
    /\ RemodelDone
    /\ ret[1].data.diff.skillsChanges.reordered
    /\ Len(ret[1].data.diff.skillsChanges.highlighted) = 2

-----------------------------------------------------------------------------
(* remodelResume: the change summary of the diff.                          *)

NoChangesSummary == "No changes needed - resume already optimized"

\* The section order of the remodeled resume differs from the original one.
SectionsChanged ==
    ret[1].data.diff.sectionsOrder.remodeled # ret[1].data.diff.sectionsOrder.original

\* C14: the change summary is the concatenation of the changes that
\* occurred ("Prioritized N job-relevant skills" when the skills were
\* reordered, "Reordered sections for ATS optimization" when the section
\* order changed), and it is the "No changes needed" message when nothing
\* changed: skills not reordered and no job skill found.
C14_ChangeSummary ==
    RemodelDone =>
        LET diff == ret[1].data.diff
            prioritized == "Prioritized " \o ToString(Len(diff.skillsChanges.highlighted))
                               \o " job-relevant skills"
            sections == "Reordered sections for ATS optimization"
        IN  diff.summary =
                IF diff.skillsChanges.reordered /\ SectionsChanged
                THEN prioritized \o "; " \o sections
                ELSE IF diff.skillsChanges.reordered THEN prioritized
                ELSE IF SectionsChanged THEN sections
                ELSE NoChangesSummary

\* Nothing changed (no job skill found, skills and sections in their
\* original order), yet the summary reports reordered sections.
C14_UnchangedReportedAsReordered ==
    /\ RemodelDone
    /\ extractJobSkills(args.jobDescription) = <<>>
    /\ ~ret[1].data.diff.skillsChanges.reordered
    /\ ~SectionsChanged
    /\ ret[1].data.diff.summary = "Reordered sections for ATS optimization"

\* No call of remodelResume returns the "No changes needed" summary.
C14_NoChangesNeverReported ==
    RemodelDone => ret[1].data.diff.summary # NoChangesSummary

-----------------------------------------------------------------------------
(* improveAnswer on answers made of whole sentences.                       *)

\* Bounds and inputs: up to MaxSentences sentences, separated by a space or
\* a line break.
MaxSentences == 3
AnswerSentences ==
    {<<"G","o",".">>,
     <<"I"," ","l","i","k","e"," ","m","y","s","q","l","!">>,
     <<"M","o","n","g","o","d","b"," ","j","a","v","a","s","c","r","i","p","t",".">>,
     <<"x",".">>,
     <<"H","i","?">>}
SentenceSeparators == {<<" ">>, <<"\n">>}
SentenceJobDescriptions ==
    ImproveJobDescriptions
        \cup {<<"m","y","s","q","l",","," ","m","o","n","g","o","d","b",","," ","J","a","v","a","S","c","r","i","p","t">>}

RECURSIVE SentenceTexts(_)
\* The texts of n sentences with a separator between neighbours.
SentenceTexts(n) ==
    IF n = 1 THEN AnswerSentences
    ELSE {t \o sep \o s : t \in SentenceTexts(n - 1),
                          sep \in SentenceSeparators, s \in AnswerSentences}

SentenceAnswers == UNION {SentenceTexts(n) : n \in 1..MaxSentences}

InitReorder ==
    /\ pc = "call"
    /\ fn = "improveAnswer"
    /\ args \in [originalAnswer : SentenceAnswers,
                 jobDescription : SentenceJobDescriptions]
    /\ ret = <<>>
    /\ ServerIdle

CallImproveSentences ==
    /\ pc = "call"
    /\ fn = "improveAnswer"
    /\ ret' = <<improveAnswer(args.originalAnswer, args.jobDescription)>>
    /\ pc' = "done"
    /\ UNCHANGED <<fn, args, serverVars>>

NextReorder == CallImproveSentences

SpecReorder == InitReorder /\ [][NextReorder]_vars

\* Sentence s mentions a job skill (which the answer then mentions too).
MentionsJobSkill(s) ==
    \E skill \in Range(extractJobSkills(args.jobDescription)) :
        includes(toLowerCase(s), skill)

\* The sentences of the trimmed answer, and its two groups.
AnswerSentencesOf == splitSentences(trim(args.originalAnswer))
SkillGroup == SelectSeq(AnswerSentencesOf, MentionsJobSkill)
OtherGroup == SelectSeq(AnswerSentencesOf, LAMBDA s : ~MentionsJobSkill(s))

\* At least one sentence mentions a job skill and at least one does not.
ReorderCase == SkillGroup # <<>> /\ OtherGroup # <<>>

\* Whitespace trimmed and collapsed, one space after sentence punctuation.
Formatted(text) == standardizePunctuation(collapseWhitespace(trim(text)))

HasNote(note) == \E i \in 1..Len(ret[1].data.changes) : ret[1].data.changes[i] = note

ReorderNote ==
    "Reordered sentences to highlight " \o ToString(Len(ret[1].data.mentionedJobSkills))
        \o " job-relevant skill(s) first"
FormatNote == "Cleaned up formatting and spacing"
LowRelevanceNote == "No job skills mentioned - improvement limited"
HighRelevanceNote == "Answer is highly relevant to job description"
SafetyNote == "Safety check: minimal modification applied"
WellOptimizedNote == "Answer is already well-optimized"

\* The confidence of an answer with k mentioned job skills: the base, the
\* reorder bonus, the relevance adjustment, the penalty of a revert and the
\* bonus of an answer without any change note.
ConfidenceOf(k, reorderBonus, reverted, noChange) ==
    LET base == 50 + Min(20, 5 * k) + reorderBonus
        relevance == IF k = 0 THEN Max(30, base - 20)
                     ELSE IF k >= 3 THEN Min(95, base + 15)
                     ELSE base
        safety == IF reverted THEN Max(20, relevance - 30) ELSE relevance
    IN  IF noChange THEN safety + 10 ELSE safety

\* C15: sentences are reordered exactly when at least one sentence mentions
\* a job skill and at least one does not; the text is then all
\* skill-mentioning sentences followed by all others, each group in its
\* original order, no sentence dropped or duplicated (formatted, unless the
\* safety check reverted it), the reorder note is recorded and confidence
\* is 10 higher; otherwise the sentence order is untouched, no reorder note
\* is recorded and confidence gets no reorder bonus.
C15_ReorderStep ==
    ImproveDone =>
        LET d == ret[1].data
            answer == trim(args.originalAnswer)
            text == IF ReorderCase
                    THEN join(SkillGroup \o OtherGroup, <<" ">>)
                    ELSE answer
        IN  /\ HasNote(ReorderNote) <=> ReorderCase
            /\ IsPermutation(SkillGroup \o OtherGroup, AnswerSentencesOf)
            /\ IF HasNote(SafetyNote) THEN d.improved = answer
               ELSE d.improved = Formatted(text)
            /\ d.confidence =
                   ConfidenceOf(Len(d.mentionedJobSkills),
                                IF ReorderCase THEN 10 ELSE 0,
                                HasNote(SafetyNote), HasNote(WellOptimizedNote))

\* C15 witness: three sentences, the second and third mention a job skill
\* and are moved before the first, keeping their order.
C15_Witness ==
    /\ ImproveDone
    /\ ReorderCase
    /\ Len(AnswerSentencesOf) = 3
    /\ Len(SkillGroup) = 2
    /\ SkillGroup[1] # SkillGroup[2]
    /\ ~MentionsJobSkill(AnswerSentencesOf[1])
    /\ ret[1].data.improved = join(SkillGroup \o OtherGroup, <<" ">>)
    /\ ret[1].data.improved # trim(args.originalAnswer)
    /\ HasNote(ReorderNote)

\* Every sentence mentions a job skill: nothing is reordered.
C15_WitnessAllMention ==
    /\ ImproveDone
    /\ Len(AnswerSentencesOf) = 2
    /\ OtherGroup = <<>>
    /\ ~HasNote(ReorderNote)

-----------------------------------------------------------------------------
(* improveAnswer: confidence and change notes.                             *)

\* The number of job skills the trimmed answer mentions.
MentionedCount ==
    Cardinality({skill \in Range(extractJobSkills(args.jobDescription)) :
                    includes(toLowerCase(trim(args.originalAnswer)), skill)})

\* The transformed text passes the safety check.
SafetyCheckPasses ==
    TokensWithin(transformedAnswer(trim(args.originalAnswer), args.jobDescription),
                 trim(args.originalAnswer))

\* C16: with k mentioned job skills confidence starts at 50 + min(20, 5k);
\* after the reorder step, k = 0 sets it to max(30, confidence - 20) and
\* records the low-relevance note, k >= 3 sets it to min(95, confidence + 15)
\* and records the high-relevance note, and k = 1 or 2 leaves it unchanged
\* and records neither note.
C16_ConfidenceSteps ==
    ImproveDone =>
        LET d == ret[1].data
            k == MentionedCount
            start == 50 + Min(20, 5 * k)
            afterReorder == IF HasNote(ReorderNote) THEN start + 10 ELSE start
            afterRelevance == IF k = 0 THEN Max(30, afterReorder - 20)
                              ELSE IF k >= 3 THEN Min(95, afterReorder + 15)
                              ELSE afterReorder
            afterSafety == IF HasNote(SafetyNote) THEN Max(20, afterRelevance - 30)
                           ELSE afterRelevance
        IN  /\ Len(d.mentionedJobSkills) = k
            /\ HasNote(LowRelevanceNote) <=> k = 0
            /\ HasNote(HighRelevanceNote) <=> k >= 3
            /\ d.confidence = IF HasNote(WellOptimizedNote) THEN afterSafety + 10
                              ELSE afterSafety

\* C16 witness: seven job skills are mentioned, the start is capped at 70,
\* the sentences are reordered and the high-relevance step gives 95.
C16_Witness ==
    /\ ImproveDone
    /\ MentionedCount = 7
    /\ HasNote(ReorderNote)
    /\ HasNote(HighRelevanceNote)
    /\ ret[1].data.confidence = 95

\* No job skill is mentioned: confidence 30 and the low-relevance note.
C16_WitnessLow ==
    /\ ImproveDone
    /\ MentionedCount = 0
    /\ Len(extractJobSkills(args.jobDescription)) > 0
    /\ HasNote(LowRelevanceNote)
    /\ ret[1].data.confidence = 30

\* Two job skills are mentioned: no relevance note, confidence 60 + 10.
C16_WitnessMiddle ==
    /\ ImproveDone
    /\ MentionedCount = 2
    /\ HasNote(ReorderNote)
    /\ ~HasNote(LowRelevanceNote) /\ ~HasNote(HighRelevanceNote)
    /\ ret[1].data.confidence = 70

\* C17: when the safety check fails, improveAnswer still returns a result:
\* `improved` is the original answer, confidence is lowered by 30 but not
\* below 20, and the safety note is appended to the changes; when the check
\* passes, `improved` is the transformed text, confidence is not lowered
\* and no safety note is recorded.
C17_SafetyRevert ==
    ImproveDone =>
        LET d == ret[1].data
            answer == trim(args.originalAnswer)
            bonus == IF HasNote(ReorderNote) THEN 10 ELSE 0
            before == ConfidenceOf(MentionedCount, bonus, FALSE, FALSE)
        IN  /\ ret[1].type = "improvement"
            /\ HasNote(SafetyNote) <=> ~SafetyCheckPasses
            /\ IF SafetyCheckPasses
               THEN /\ d.improved = transformedAnswer(answer, args.jobDescription)
                    /\ d.confidence =
                           IF HasNote(WellOptimizedNote) THEN before + 10 ELSE before
               ELSE /\ d.improved = answer
                    /\ d.improved = d.original
                    /\ d.changes[Len(d.changes)] = SafetyNote
                    /\ d.confidence = Max(20, before - 30)
                    /\ d.confidence >= 20

\* C17 witness: an answer mentioning no job skill is reverted; confidence
\* 30 would drop to 0 and is held at 20.
C17_Witness ==
    /\ ImproveDone
    /\ ~SafetyCheckPasses
    /\ MentionedCount = 0
    /\ ret[1].data.improved = trim(args.originalAnswer)
    /\ HasNote(SafetyNote)
    /\ ret[1].data.confidence = 20

\* A reverted answer whose confidence drops by the full 30.
C17_WitnessFullPenalty ==
    /\ ImproveDone
    /\ ~SafetyCheckPasses
    /\ HasNote(SafetyNote)
    /\ ret[1].data.confidence =
           ConfidenceOf(MentionedCount, IF HasNote(ReorderNote) THEN 10 ELSE 0,
                        FALSE, FALSE) - 30
    /\ ret[1].data.confidence > 20

\* No step before the last one records a change note: no reorder, text
\* already formatted, one or two mentioned skills, safety check passed.
NothingRecorded ==
    /\ ~ReorderCase
    /\ Formatted(trim(args.originalAnswer)) = trim(args.originalAnswer)
    /\ MentionedCount \in {1, 2}
    /\ SafetyCheckPasses

\* C18: when the reorder, formatting, relevance and safety steps recorded
\* no change note, the "already well-optimized" note is recorded (as the
\* only note) and confidence is 10 higher than after those steps; when any
\* note was recorded, the note is absent and confidence gets no bonus.
C18_WellOptimized ==
    ImproveDone =>
        LET d == ret[1].data
            bonus == IF ReorderCase THEN 10 ELSE 0
            earlier == ConfidenceOf(MentionedCount, bonus, ~SafetyCheckPasses, FALSE)
        IN  IF NothingRecorded
            THEN /\ d.changes = <<WellOptimizedNote>>
                 /\ d.confidence = earlier + 10
            ELSE /\ ~HasNote(WellOptimizedNote)
                 /\ Len(d.changes) > 0
                 /\ \/ HasNote(ReorderNote) \/ HasNote(FormatNote)
                    \/ HasNote(LowRelevanceNote) \/ HasNote(HighRelevanceNote)
                    \/ HasNote(SafetyNote)
                 /\ d.confidence = earlier

\* C18 witness: two sentences that both mention a job skill, two skills in
\* all: nothing to change, the note is recorded and confidence is 60 + 10.
C18_Witness ==
    /\ ImproveDone
    /\ NothingRecorded
    /\ Len(AnswerSentencesOf) = 2
    /\ MentionedCount = 2
    /\ ret[1].data.changes = <<WellOptimizedNote>>
    /\ ret[1].data.confidence = 70
    /\ ret[1].data.improved = args.originalAnswer

-----------------------------------------------------------------------------
(* improveAnswer called with any JavaScript value as the original answer.  *)

\* JavaScript values: undefined, null, booleans, numbers, strings, arrays
\* and objects.
Undefined == [kind |-> "undefined"]
Null == [kind |-> "null"]
BooleanValue(b) == [kind |-> "boolean", bool |-> b]
NumberValue(x) == [kind |-> "number", num |-> x]
StringValue(text) == [kind |-> "string", text |-> text]
ArrayValue(items) == [kind |-> "array", items |-> items]
ObjectValue(fields) == [kind |-> "object", fields |-> fields]

\* typeof v
typeof(v) == IF v.kind = "null" THEN "object" ELSE v.kind

\* !v is false
IsTruthy(v) ==
    CASE v.kind = "undefined" -> FALSE
      [] v.kind = "null" -> FALSE
      [] v.kind = "boolean" -> v.bool
      [] v.kind = "number" -> ~IsNaN(v.num) /\ v.num # IntNum(0)
      [] v.kind = "string" -> v.text # <<>>
      [] v.kind \in {"array", "object"} -> TRUE

\* The early return gives the three fields only.
earlyReturnWithoutNote(originalAnswer) ==
    [improved |-> IF IsTruthy(originalAnswer) THEN originalAnswer ELSE StringValue(<<>>),
     confidence |-> 0,
     changes |-> <<>>]

\* The record returned when originalAnswer is falsy or not a string.
earlyReturn(originalAnswer) ==
    [improved |-> IF IsTruthy(originalAnswer) THEN originalAnswer ELSE StringValue(<<>>),
     confidence |-> 0,
     changes |-> <<>>,
     note |-> "No improvement needed"]

\* improveAnswer on any value: the guard of the first statement, then the
\* function on a non-empty string.
improveAnswerValue(originalAnswer, jobDescription) ==
    IF ~IsTruthy(originalAnswer) \/ typeof(originalAnswer) # "string"
    THEN earlyReturn(originalAnswer)
    ELSE improveAnswer(originalAnswer.text, jobDescription)

\* Bounds and inputs: the values that are not non-empty strings, and the
\* strings of up to MaxValuePieces pieces.
MaxValuePieces == 2
OriginalAnswerValues ==
    {Undefined, Null, BooleanValue(FALSE), BooleanValue(TRUE),
     NumberValue(IntNum(0)), NumberValue(IntNum(42)), NumberValue(NaN)}
        \cup {StringValue(text) : text \in Concats(AnswerPieces, MaxValuePieces)}

InitImproveValue ==
    /\ pc = "call"
    /\ fn = "improveAnswer"
    /\ args \in [originalAnswer : OriginalAnswerValues,
                 jobDescription : ImproveJobDescriptions]
    /\ ret = <<>>
    /\ ServerIdle

CallImproveAnswerValue ==
    /\ pc = "call"
    /\ fn = "improveAnswer"
    /\ ret' = <<improveAnswerValue(args.originalAnswer, args.jobDescription)>>
    /\ pc' = "done"
    /\ UNCHANGED <<fn, args, serverVars>>

NextImproveValue == CallImproveAnswerValue

SpecImproveValue == InitImproveValue /\ [][NextImproveValue]_vars

ImproveValueDone == pc = "done" /\ fn = "improveAnswer"

\* The original answer is empty, missing or not a string.
IsEmptyMissingOrNonString ==
    \/ args.originalAnswer.kind # "string"
    \/ args.originalAnswer.text = <<>>

\* The original answer, or the empty string for an empty or missing one.
OriginalOrEmpty ==
    IF args.originalAnswer.kind \in {"undefined", "null"}
    THEN StringValue(<<>>)
    ELSE IF args.originalAnswer \in {BooleanValue(FALSE), NumberValue(IntNum(0)),
                                     NumberValue(NaN)}
    THEN StringValue(<<>>)
    ELSE args.originalAnswer

\* C19 as stated: for an empty, missing or non-string original answer the
\* result is the record {improved: original-or-empty-string, confidence: 0,
\* changes: []} and has exactly that shape.
C19_ExactShape ==
    ImproveValueDone /\ IsEmptyMissingOrNonString =>
        ret[1] = [improved |-> OriginalOrEmpty, confidence |-> 0, changes |-> <<>>]

\* C19 as amended: for an empty, missing or non-string original answer the
\* result is the bare record with improved = original-or-empty-string,
\* confidence 0, an empty changes list and the note "No improvement
\* needed": four fields, without the type, data and message of the result
\* for a non-empty string.
C19_EarlyReturn ==
    ImproveValueDone =>
        IF IsEmptyMissingOrNonString
        THEN /\ DOMAIN ret[1] = {"improved", "confidence", "changes", "note"}
             /\ ret[1].improved = OriginalOrEmpty
             /\ ret[1].confidence = 0
             /\ ret[1].changes = <<>>
             /\ ret[1].note = "No improvement needed"
        ELSE /\ DOMAIN ret[1] = {"type", "data", "message"}
             /\ ret[1].data.original = trim(args.originalAnswer.text)

\* C19 witness: improveAnswer("", <a job description>) returned improved "",
\* confidence 0, no changes, and the note.
C19_Witness ==
    /\ ImproveValueDone
    /\ args.originalAnswer = StringValue(<<>>)
    /\ args.jobDescription # <<>>
    /\ ret[1] = [improved |-> StringValue(<<>>), confidence |-> 0, changes |-> <<>>,
                 note |-> "No improvement needed"]

\* A non-string original (the number 42) is returned as it is.
C19_WitnessNonString ==
    /\ ImproveValueDone
    /\ args.originalAnswer = NumberValue(IntNum(42))
    /\ ret[1].improved = NumberValue(IntNum(42))
    /\ ret[1].confidence = 0

-----------------------------------------------------------------------------
(* rankJobs called with any value as job list, resume, location, weights.  *)

\* Only a missing list counts as empty.
isEmptyJobListMissingOnly(jobs) == ~IsTruthy(jobs)

\* !jobs || jobs.length === 0
isEmptyJobList(jobs) == ~IsTruthy(jobs) \/ Len(jobs.items) = 0

\* {} as a resume: parsedSkills || [] and yearsOfExperience || 0.
EmptyResume == [parsedSkills |-> <<>>, yearsOfExperience |-> 0]

\* rankJobs on any values: the default parameters, the guard of the first
\* statement, the reads of userResume (a TypeError on null) and the rest.
rankJobsValue(jobs, userResume, userLocation, customWeights, now) ==
    LET jobsArg == IF jobs = Undefined THEN ArrayValue(<<>>) ELSE jobs
        resumeArg == IF userResume = Undefined THEN ObjectValue(EmptyResume)
                     ELSE userResume
        locationArg == IF userLocation.kind = "string" THEN userLocation.text
                       ELSE <<>>
        weightsArg == IF customWeights \in {Undefined, Null} THEN <<>>
                      ELSE customWeights.fields
    IN  IF isEmptyJobList(jobsArg) THEN [returned |-> <<>>]
        ELSE IF resumeArg = Null THEN [threw |-> "TypeError"]
        ELSE [returned |-> rankJobs(jobsArg.items, resumeArg.fields, locationArg,
                                    weightsArg, now)]

\* Bounds and inputs.
MaxValueJobs == 1
JobListValues ==
    {Undefined, Null} \cup {ArrayValue(jobs) : jobs \in SeqsUpTo(JobCatalogue, MaxValueJobs)}
ResumeValues == {Undefined, Null, ObjectValue(EmptyResume), ObjectValue(RankResume)}
LocationValues ==
    {Undefined, Null, StringValue(<<>>), StringValue(<<"P","a","r","i","s",","," ","F","R">>)}
WeightMapValues ==
    {Undefined, Null, ObjectValue(<<>>),
     ObjectValue([skillMatch |-> IntNum(2)]),
     ObjectValue([location |-> IntNum(-1)]),
     ObjectValue([bonus |-> IntNum(-1)])}

InitRankValue ==
    /\ pc = "call"
    /\ fn = "rankJobs"
    /\ args \in [jobs : JobListValues,
                 userResume : ResumeValues,
                 userLocation : LocationValues,
                 customWeights : WeightMapValues,
                 now : {Now}]
    /\ ret = <<>>
    /\ ServerIdle

CallRankJobsValue ==
    /\ pc = "call"
    /\ fn = "rankJobs"
    /\ ret' = <<rankJobsValue(args.jobs, args.userResume, args.userLocation,
                              args.customWeights, args.now)>>
    /\ pc' = "done"
    /\ UNCHANGED <<fn, args, serverVars>>

NextRankValue == CallRankJobsValue

SpecRankValue == InitRankValue /\ [][NextRankValue]_vars

RankValueDone == pc = "done" /\ fn = "rankJobs"

\* The job list is empty or missing.
IsEmptyOrMissingJobList == args.jobs \in {Undefined, Null, ArrayValue(<<>>)}

\* C20: rankJobs called with an empty or missing job list returns an empty
\* sequence and raises no error, whatever the candidate profile, location
\* and weight overrides are.
C20_EmptyJobList ==
    RankValueDone /\ IsEmptyOrMissingJobList =>
        /\ DOMAIN ret[1] = {"returned"}
        /\ ret[1].returned = <<>>

\* C20 witness: rankJobs([], null, null, { bonus: -1 }) returned [].
C20_Witness ==
    /\ RankValueDone
    /\ args.jobs = ArrayValue(<<>>)
    /\ args.userResume = Null
    /\ args.userLocation = Null
    /\ args.customWeights = ObjectValue([bonus |-> IntNum(-1)])
    /\ ret[1] = [returned |-> <<>>]

\* A call with one job returns one ranked entry.
C20_WitnessNonEmpty ==
    /\ RankValueDone
    /\ args.jobs.kind = "array"
    /\ Len(args.jobs.items) = 1
    /\ "returned" \in DOMAIN ret[1]
    /\ Len(ret[1].returned) = 1

-----------------------------------------------------------------------------
(* The exported functions called with empty or missing arguments.          *)

\* The outcome of a call: a returned value or a thrown error.
Returned(value) == [returned |-> value]
Threw(error) == [threw |-> error]

\* normalize = (text) => (text || "").toLowerCase(), and the text a falsy
\* or missing string argument stands for.
textOf(v) == IF v.kind = "string" THEN v.text ELSE <<>>

\* calculateExperienceFit on any values: jobDescription.match throws a
\* TypeError on undefined and null; yearsOfExperience defaults to 0 and a
\* null compares as 0.
calculateExperienceFitValue(jobDescription, yearsOfExperience) ==
    IF jobDescription.kind \in {"undefined", "null"} THEN Threw("TypeError")
    ELSE Returned(calculateExperienceFit(textOf(jobDescription),
                                         IF yearsOfExperience.kind = "number"
                                         THEN yearsOfExperience.num.n ELSE 0))

\* calculateSkillMatch on any values: the guard returns 0 for a falsy
\* description, a falsy skill list and an empty list.
calculateSkillMatchValue(jobDescription, resumeSkills) ==
    IF ~IsTruthy(jobDescription) \/ ~IsTruthy(resumeSkills)
    THEN Returned(IntNum(0))
    ELSE Returned(calculateSkillMatch(jobDescription.text, resumeSkills.items))

\* calculateLocationMatch on any values: the guard returns 50 for a falsy
\* location.
calculateLocationMatchValue(jobLocation, userLocation) ==
    Returned(calculateLocationMatch(textOf(jobLocation), textOf(userLocation)))

\* calculateRecency on any values: the guard returns 50 for a falsy date.
calculateRecencyValue(jobPostedDate, now) ==
    IF ~IsTruthy(jobPostedDate) THEN Returned(IntNum(50))
    ELSE Returned(calculateRecency(<<jobPostedDate.num.n>>, now))

\* remodelResume on any values: resume?.parsedSkills read as [] unless it
\* is an array, jobDescription defaulting to "" and normalized.
remodelResumeValue(resume, jobDescription) ==
    Returned(remodelResume(IF resume.kind = "object" THEN resume.fields
                           ELSE [parsedSkills |-> <<>>],
                           textOf(jobDescription)))

\* Inputs: missing, empty and filled values of each argument.
DescriptionValues ==
    {Undefined, Null, StringValue(<<>>),
     StringValue(<<"R","e","a","c","t"," ","d","e","v","e","l","o","p","e","r",","," ","5","+"," ","y","e","a","r","s"," ","o","f"," ","e","x","p","e","r","i","e","n","c","e">>)}
SkillListValues ==
    {Undefined, Null, ArrayValue(<<>>), ArrayValue(<<W_React>>)}
YearsValues == {Undefined, Null, NumberValue(IntNum(0)), NumberValue(IntNum(3))}
PostedDateValues == {Undefined, Null, NumberValue(IntNum(Now - 3 * HoursPerDay))}
ResumeObjectValues ==
    {Undefined, Null, ObjectValue([parsedSkills |-> <<>>]),
     ObjectValue([parsedSkills |-> <<W_go, W_React>>])}

InitMissing ==
    /\ pc = "call"
    /\ ret = <<>>
    /\ \/ /\ fn = "calculateSkillMatch"
          /\ args \in [jobDescription : DescriptionValues, resumeSkills : SkillListValues]
       \/ /\ fn = "calculateExperienceFit"
          /\ args \in [jobDescription : DescriptionValues, yearsOfExperience : YearsValues]
       \/ /\ fn = "calculateLocationMatch"
          /\ args \in [jobLocation : LocationValues, userLocation : LocationValues]
       \/ /\ fn = "calculateRecency"
          /\ args \in [jobPostedDate : PostedDateValues, now : {Now}]
       \/ /\ fn = "rankJobs"
          /\ args \in [jobs : JobListValues, userResume : ResumeValues,
                       userLocation : LocationValues, customWeights : {Undefined},
                       now : {Now}]
       \/ /\ fn = "remodelResume"
          /\ args \in [resume : ResumeObjectValues, jobDescription : DescriptionValues]
    /\ ServerIdle

CallSkillMatchOnValues ==
    /\ pc = "call" /\ fn = "calculateSkillMatch"
    /\ ret' = <<calculateSkillMatchValue(args.jobDescription, args.resumeSkills)>>
    /\ pc' = "done"
    /\ UNCHANGED <<fn, args, serverVars>>

CallExperienceFitOnValues ==
    /\ pc = "call" /\ fn = "calculateExperienceFit"
    /\ ret' = <<calculateExperienceFitValue(args.jobDescription, args.yearsOfExperience)>>
    /\ pc' = "done"
    /\ UNCHANGED <<fn, args, serverVars>>

CallLocationMatchOnValues ==
    /\ pc = "call" /\ fn = "calculateLocationMatch"
    /\ ret' = <<calculateLocationMatchValue(args.jobLocation, args.userLocation)>>
    /\ pc' = "done"
    /\ UNCHANGED <<fn, args, serverVars>>

CallRecencyOnValues ==
    /\ pc = "call" /\ fn = "calculateRecency"
    /\ ret' = <<calculateRecencyValue(args.jobPostedDate, args.now)>>
    /\ pc' = "done"
    /\ UNCHANGED <<fn, args, serverVars>>

CallRankJobsOnValues ==
    /\ pc = "call" /\ fn = "rankJobs"
    /\ ret' = <<rankJobsValue(args.jobs, args.userResume, args.userLocation,
                              args.customWeights, args.now)>>
    /\ pc' = "done"
    /\ UNCHANGED <<fn, args, serverVars>>

CallRemodelOnValues ==
    /\ pc = "call" /\ fn = "remodelResume"
    /\ ret' = <<remodelResumeValue(args.resume, args.jobDescription)>>
    /\ pc' = "done"
    /\ UNCHANGED <<fn, args, serverVars>>

NextMissing ==
    \/ CallSkillMatchOnValues
    \/ CallExperienceFitOnValues
    \/ CallLocationMatchOnValues
    \/ CallRecencyOnValues
    \/ CallRankJobsOnValues
    \/ CallRemodelOnValues

SpecMissing == InitMissing /\ [][NextMissing]_vars

MissingDone == pc = "done"

\* C21: no core function signals failure on empty or missing input: every
\* call of calculateSkillMatch, calculateExperienceFit,
\* calculateLocationMatch, calculateRecency, rankJobs and remodelResume
\* with an empty or missing job description, resume, skill list, location
\* or posted date returns a value and never throws (improveAnswer on
\* missing values is the call of SpecImproveValue).
C21_NeverThrows ==
    MissingDone => DOMAIN ret[1] = {"returned"}

\* calculateExperienceFit(undefined, 3) throws a TypeError.
C21_ExperienceFitThrows ==
    /\ MissingDone
    /\ fn = "calculateExperienceFit"
    /\ args.jobDescription = Undefined
    /\ args.yearsOfExperience = NumberValue(IntNum(3))
    /\ ret[1] = Threw("TypeError")

\* rankJobs with one job and a null resume throws a TypeError.
C21_RankJobsNullResumeThrows ==
    /\ MissingDone
    /\ fn = "rankJobs"
    /\ args.jobs.kind = "array"
    /\ Len(args.jobs.items) = 1
    /\ args.userResume = Null
    /\ ret[1] = Threw("TypeError")

\* Apart from calculateExperienceFit without a description and rankJobs
\* with jobs and a null resume, every call returns a value.
C21_OtherCallsReturn ==
    MissingDone =>
        \/ "returned" \in DOMAIN ret[1]
        \/ fn = "calculateExperienceFit" /\ args.jobDescription \in {Undefined, Null}
        \/ fn = "rankJobs" /\ args.userResume = Null /\ ~isEmptyJobList(args.jobs)

-----------------------------------------------------------------------------
(* Two invocations of a core function with the same arguments.             *)

\* formatAIResponse stamps the response with new Date().toISOString(); the
\* clock reading stands for its text.
formatAIResponse(response, now) == [timestamp |-> now] @@ response

\* The clock readings of the invocations: whole days after Now.
MaxClockDays == 5
ClockReadings == {Now + d * HoursPerDay : d \in 0..MaxClockDays}

\* The clock does not run backwards between two invocations.
LaterReadings == {t \in ClockReadings : ret = <<>> \/ t >= ret[Len(ret)].at}

InitPure ==
    /\ pc = "call"
    /\ ret = <<>>
    /\ \/ /\ fn = "rankJobs"
          /\ args \in [jobs : SeqsUpTo(JobCatalogue, 1), userResume : {RankResume},
                       userLocation : {<<"P","a","r","i","s",","," ","F","R">>},
                       customWeights : {<<>>}]
       \/ /\ fn = "remodelResume"
          /\ args \in [resume : {[parsedSkills |-> <<>>],
                                 [parsedSkills |-> <<W_go, W_React>>]},
                       jobDescription : RemodelJobDescriptions]
    /\ ServerIdle

\* The position after an invocation: a second one follows the first.
AfterInvocation == IF pc = "call" THEN "again" ELSE "done"

InvokeRankJobs ==
    /\ pc \in {"call", "again"} /\ fn = "rankJobs"
    /\ \E now \in LaterReadings :
           ret' = Append(ret, [at |-> now,
                               value |-> rankJobs(args.jobs, args.userResume,
                                                  args.userLocation,
                                                  args.customWeights, now)])
    /\ pc' = AfterInvocation
    /\ UNCHANGED <<fn, args, serverVars>>

InvokeRemodelResume ==
    /\ pc \in {"call", "again"} /\ fn = "remodelResume"
    /\ \E now \in LaterReadings :
           ret' = Append(ret, [at |-> now,
                               value |-> formatAIResponse(
                                             remodelResume(args.resume,
                                                           args.jobDescription), now)])
    /\ pc' = AfterInvocation
    /\ UNCHANGED <<fn, args, serverVars>>

NextPure == InvokeRankJobs \/ InvokeRemodelResume

SpecPure == InitPure /\ [][NextPure]_vars

\* C22: two invocations of a core function (here rankJobs and
\* remodelResume) with identical arguments, made at any two times, return
\* identical results.
C22_SameResultAtAnyTime ==
    pc = "done" => ret[1].value = ret[2].value

\* The same job list ranked five days later has another recency sub-score:
\* a posting three days old scored 100 is eight days old and scores 85.
C22_RankingDependsOnClock ==
    /\ pc = "done" /\ fn = "rankJobs"
    /\ Len(args.jobs) = 1
    /\ ret[1].value[1].scoreBreakdown.recency = IntNum(100)
    /\ ret[2].value[1].scoreBreakdown.recency = IntNum(85)

\* Two results of remodelResume for the same arguments differ, in the
\* timestamp only.
C22_TimestampDiffers ==
    /\ pc = "done" /\ fn = "remodelResume"
    /\ ret[1].value # ret[2].value
    /\ ret[1].value.data = ret[2].value.data

\* Results differ only when the clock readings differ; rankJobs on an empty
\* list returns the same at any time.
C22_SameResultAtSameTime ==
    pc = "done" =>
        /\ ret[1].at = ret[2].at => ret[1].value = ret[2].value
        /\ fn = "rankJobs" /\ args.jobs = <<>> => ret[1].value = ret[2].value

-----------------------------------------------------------------------------
(* aiService.js: extractJobSkills as a call of its own.                    *)

\* extractJobSkills on any value: normalize reads a missing text as "".
extractJobSkillsValue(jobDescription) == extractJobSkills(textOf(jobDescription))

\* Bounds and inputs: missing texts and texts of up to MaxTextPieces pieces.
MaxTextPieces == 4
TextPieces ==
    {<<"J","a","v","a">>, <<"S","c","r","i","p","t">>, <<"m","o","n">>,
     <<"G","O">>, <<"M","y">>, <<"S","Q","L">>, <<" ">>, <<"c","#">>}
TextValues ==
    {Undefined, Null} \cup {StringValue(text) : text \in Concats(TextPieces, MaxTextPieces)}

InitExtract ==
    /\ pc = "call"
    /\ fn = "extractJobSkills"
    /\ args \in [jobDescription : TextValues]
    /\ ret = <<>>
    /\ ServerIdle

CallExtractJobSkills ==
    /\ pc = "call"
    /\ fn = "extractJobSkills"
    /\ ret' = <<extractJobSkillsValue(args.jobDescription)>>
    /\ pc' = "done"
    /\ UNCHANGED <<fn, args, serverVars>>

NextExtract == CallExtractJobSkills

SpecExtract == InitExtract /\ [][NextExtract]_vars

ExtractDone == pc = "done" /\ fn = "extractJobSkills"

\* token occurs in text as a run of consecutive characters.
OccursIn(token, text) ==
    \E i \in 1..(Len(text) - Len(token) + 1) :
        \A j \in 1..Len(token) : text[i + j - 1] = token[j]

\* C23: extractSkills(text) is exactly the set of vocabulary tokens that
\* occur as substrings of the lower-cased text: no token absent from the
\* text, no present token omitted, no duplicates, empty for an empty or
\* missing text; and the vocabulary has no duplicate tokens.
C23_ExtractSkills ==
    /\ \A i, j \in 1..Len(KNOWN_SKILLS) : i # j => KNOWN_SKILLS[i] # KNOWN_SKILLS[j]
    /\ ExtractDone =>
        LET text == IF args.jobDescription.kind = "string"
                    THEN toLowerCase(args.jobDescription.text) ELSE <<>>
        IN  /\ Range(ret[1]) = {token \in Range(KNOWN_SKILLS) : OccursIn(token, text)}
            /\ \A i, j \in 1..Len(ret[1]) : i # j => ret[1][i] # ret[1][j]
            /\ text = <<>> => ret[1] = <<>>

\* C23 witness: "My JavaScript" gives javascript and, as a substring of it,
\* java, and nothing else.
C23_Witness ==
    /\ ExtractDone
    /\ args.jobDescription =
           StringValue(<<"M","y">> \o <<" ">> \o <<"J","a","v","a">> \o <<"S","c","r","i","p","t">>)
    /\ Range(ret[1]) = {<<"j","a","v","a","s","c","r","i","p","t">>, <<"j","a","v","a">>}
    /\ Len(ret[1]) = 2

\* A missing text gives no skill.
C23_WitnessMissing ==
    /\ ExtractDone
    /\ args.jobDescription = Undefined
    /\ ret[1] = <<>>

-----------------------------------------------------------------------------
(* securityMiddleware.js and server.js: the rate limiters.                 *)

\* The limits of server.js, scaled: a window of WindowTicks clock ticks for
\* the 60000 ms, GeneralMax requests for the 200 of the general limiter,
\* AiMaxAnon and AiMaxAuth for the 10 and 30 of the AI limiter.
WindowTicks == 2
GeneralMax == 3
AiMaxAnon == 1
AiMaxAuth == 2

\* requests.filter((time) => now - time < windowMs)
recentRequests(requests, now, windowMs) ==
    SelectSeq(requests, LAMBDA time : now - time < windowMs)

\* const key = `${ip}:${req.path}`
generalKey(ip, path) == <<ip, path>>

\* The middleware createRateLimiter(windowMs, maxRequests) returns, on the
\* store: the store it leaves, whether it threw the 429 error, and the
\* Retry-After value (in ticks).
createRateLimiter(store, ip, path, now, windowMs, maxRequests) ==
    LET key == generalKey(ip, path)
    IN  IF key \in DOMAIN store
        THEN LET requests == recentRequests(store[key], now, windowMs)
             IN  IF Len(requests) >= maxRequests
                 THEN [store |-> store, rejected |-> TRUE,
                       retryAfter |-> requests[1] + windowMs - now]
                 ELSE [store |-> (key :> Append(requests, now)) @@ store,
                       rejected |-> FALSE, retryAfter |-> 0]
        ELSE [store |-> (key :> <<now>>) @@ store,
              rejected |-> FALSE, retryAfter |-> 0]

\* req.user when aiRateLimiter runs: server.js mounts the limiter in front
\* of the AI router, whose routes run the auth middleware that sets
\* req.user; no earlier middleware sets it.
userSeenByAiLimiter(token) == Undefined

\* aiRateLimiter on the store, for a request with the given req.user.
aiRateLimiter(store, user, ip, now) ==
    LET isAuth == IsTruthy(user)
        maxRequests == IF isAuth THEN AiMaxAuth ELSE AiMaxAnon
        key == <<"ai-limit", IF isAuth THEN user.fields.id ELSE ip>>
        stored == IF key \in DOMAIN store THEN store[key] ELSE <<>>
        requests == recentRequests(stored, now, WindowTicks)
    IN  IF Len(requests) >= maxRequests
        THEN [store |-> store, rejected |-> TRUE,
              retryAfter |-> requests[1] + WindowTicks - now]
        ELSE [store |-> (key :> Append(requests, now)) @@ store,
              rejected |-> FALSE, retryAfter |-> 0]

\* Bounds and inputs: clients, paths, tokens, the length of a run.
MaxRequests == 4
MaxClock == 2
ClientIps == {"10.0.0.1", "10.0.0.2"}
PlainPaths == {"/api/me", "/api/jobs"}
AiPaths == {"/api/ai/analyze-job"}
Tokens == {"none", "user1"}
IncomingRequests ==
    [ip : ClientIps, path : PlainPaths, token : {"user1"}]
        \cup [ip : ClientIps, path : AiPaths, token : Tokens]

InitServer ==
    /\ CallIdle
    /\ ServerIdle

\* The response to one request: the general limiter, then for an AI path
\* the AI limiter and the auth middleware of the route.
\* limiter names the middleware that rejected the request, if any.
HandleRequest ==
    /\ Len(responses) < MaxRequests
    /\ \E req \in IncomingRequests :
        LET general == createRateLimiter(rateLimitStore, req.ip, req.path, clock,
                                         WindowTicks, GeneralMax)
            ai == aiRateLimiter(general.store, userSeenByAiLimiter(req.token),
                                req.ip, clock)
            sent == [ip |-> req.ip, path |-> req.path, token |-> req.token,
                     time |-> clock]
        IN  IF general.rejected
            THEN /\ rateLimitStore' = general.store
                 /\ responses' = Append(responses,
                        sent @@ [status |-> 429, limiter |-> "general",
                                 retryAfter |-> general.retryAfter])
            ELSE IF req.path \in AiPaths /\ ai.rejected
            THEN /\ rateLimitStore' = ai.store
                 /\ responses' = Append(responses,
                        sent @@ [status |-> 429, limiter |-> "ai",
                                 retryAfter |-> ai.retryAfter])
            ELSE /\ rateLimitStore' = IF req.path \in AiPaths THEN ai.store
                                      ELSE general.store
                 /\ responses' = Append(responses,
                        sent @@ [status |-> IF req.token = "none" THEN 401 ELSE 200,
                                 limiter |-> "none", retryAfter |-> 0])
    /\ UNCHANGED <<callVars, clock, applications, savedAnswers>>

\* Time passes.
Tick ==
    /\ clock < MaxClock
    /\ clock' = clock + 1
    /\ UNCHANGED <<callVars, rateLimitStore, applications, savedAnswers, responses>>

NextServer == HandleRequest \/ Tick

SpecServer == InitServer /\ [][NextServer]_vars

\* The requests of an IP the general limiter let through in the window
\* that ends at time t.
LetThrough(ip, t) ==
    {i \in 1..Len(responses) :
        /\ responses[i].ip = ip
        /\ responses[i].limiter # "general"
        /\ t - responses[i].time < WindowTicks
        /\ responses[i].time <= t}

\* C24: under the general limiter, for every client IP and every sequence
\* of requests to any mix of paths, at most GeneralMax (200) requests of
\* that IP are let through in any window; each request beyond the limit is
\* rejected with status 429 and a Retry-After header and is not added to
\* the stored history.
C24_GeneralLimitPerIp ==
    \A ip \in ClientIps : \A t \in 0..clock :
        Cardinality(LetThrough(ip, t)) <= GeneralMax

\* One IP got more than GeneralMax requests through in one tick by using
\* two paths.
C24_MorePerIpByMixingPaths ==
    \E ip \in ClientIps :
        /\ Cardinality(LetThrough(ip, clock)) > GeneralMax
        /\ \A i \in LetThrough(ip, clock) : responses[i].time = clock

\* What the general limiter does keep: per IP and path, at most GeneralMax
\* requests are let through in any window, a rejected request has status
\* 429 and a positive Retry-After, and the store holds the times of the
\* requests let through, no others.
C24_GeneralLimitPerIpAndPath ==
    /\ \A ip \in ClientIps : \A path \in PlainPaths \cup AiPaths : \A t \in 0..clock :
           Cardinality({i \in LetThrough(ip, t) : responses[i].path = path})
               <= GeneralMax
    /\ \A i \in 1..Len(responses) :
           responses[i].limiter # "none" =>
               responses[i].status = 429 /\ responses[i].retryAfter > 0
    /\ \A ip \in ClientIps : \A path \in PlainPaths \cup AiPaths :
           generalKey(ip, path) \in DOMAIN rateLimitStore =>
               Len(rateLimitStore[generalKey(ip, path)])
                   <= Cardinality({i \in 1..Len(responses) :
                                      /\ responses[i].ip = ip
                                      /\ responses[i].path = path
                                      /\ responses[i].limiter # "general"})

\* The AI requests of a user that were accepted in the window ending with
\* response i, before it.
AcceptedAiRequestsOfUser(i) ==
    {j \in 1..(i - 1) :
        /\ responses[j].path \in AiPaths
        /\ responses[j].token = responses[i].token
        /\ responses[j].limiter = "none"
        /\ responses[i].time - responses[j].time < WindowTicks}

\* C25: on the /api/ai endpoints a request with a valid token is limited to
\* AiMaxAuth (30) requests per window counted per user, and only requests
\* without one to AiMaxAnon (10) per IP: aiRateLimiter rejects a request of
\* an authenticated user only when AiMaxAuth requests of that user were
\* accepted in the window.
C25_AuthenticatedLimit ==
    \A i \in 1..Len(responses) :
        /\ responses[i].path \in AiPaths
        /\ responses[i].token # "none"
        /\ responses[i].limiter = "ai"
        => Cardinality(AcceptedAiRequestsOfUser(i)) >= AiMaxAuth

\* The second request of an authenticated user within one tick, the first
\* beyond AiMaxAnon, is rejected by aiRateLimiter.
C25_AuthenticatedRejectedAtAnonLimit ==
    /\ Len(responses) = AiMaxAnon + 1
    /\ \A i \in 1..Len(responses) :
           /\ responses[i].path \in AiPaths
           /\ responses[i].token = "user1"
           /\ responses[i].ip = "10.0.0.1"
           /\ responses[i].time = clock
    /\ responses[Len(responses)].status = 429
    /\ responses[Len(responses)].limiter = "ai"

\* What aiRateLimiter does: with or without a token, at most AiMaxAnon AI
\* requests of an IP are accepted in any window, and its store has no key
\* of a user.
C25_EveryRequestCountedPerIp ==
    /\ \A ip \in ClientIps : \A t \in 0..clock :
           Cardinality({i \in 1..Len(responses) :
                           /\ responses[i].ip = ip
                           /\ responses[i].path \in AiPaths
                           /\ responses[i].limiter = "none"
                           /\ t - responses[i].time < WindowTicks
                           /\ responses[i].time <= t}) <= AiMaxAnon
    /\ \A token \in Tokens : <<"ai-limit", token>> \notin DOMAIN rateLimitStore

-----------------------------------------------------------------------------
(* PUT /api/applications/:id (routes/me.js)                                *)

\* enum: ["applied", "interviewing", "rejected", "offer", "accepted"]
ApplicationStatuses ==
    {<<"a", "p", "p", "l", "i", "e", "d">>,
     <<"i", "n", "t", "e", "r", "v", "i", "e", "w", "i", "n", "g">>,
     <<"r", "e", "j", "e", "c", "t", "e", "d">>,
     <<"o", "f", "f", "e", "r">>,
     <<"a", "c", "c", "e", "p", "t", "e", "d">>}

\* maxLength: 2000 of the notes, scaled to two characters.
NotesMaxLength == 2

\* The schema handed to validateInput by the route, in the order of its keys.
\* A length of 0 and an empty enum stand for a rule that is not given.
UpdateSchema ==
    <<[field |-> "status",
       rules |-> [required |-> TRUE, type |-> "string", minLength |-> 0,
                  maxLength |-> 0, enum |-> ApplicationStatuses]],
      [field |-> "notes",
       rules |-> [required |-> FALSE, type |-> "string", minLength |-> 0,
                  maxLength |-> NotesMaxLength, enum |-> {}]]>>

\* The checks validateInput makes on one field: TRUE when none of them throws.
fieldIsValid(rules, value) ==
    IF rules.required
       /\ (value.kind \in {"undefined", "null"}
           \/ (value.kind = "string" /\ value.text = <<>>))
    THEN FALSE
    ELSE IF value.kind \in {"undefined", "null"} THEN TRUE
    ELSE IF rules.type = "string" /\ typeof(value) # "string" THEN FALSE
    ELSE IF rules.minLength > 0 /\ typeof(value) = "string"
            /\ Len(value.text) < rules.minLength THEN FALSE
    ELSE IF rules.maxLength > 0 /\ typeof(value) = "string"
            /\ Len(value.text) > rules.maxLength THEN FALSE
    ELSE IF rules.enum # {}
            /\ ~(value.kind = "string" /\ value.text \in rules.enum) THEN FALSE
    ELSE TRUE

\* validateInput(schema)(req): TRUE when next() is called, FALSE when an
\* AppError 400 is thrown.
validateInput(schema, body) ==
    \A i \in 1..Len(schema) : fieldIsValid(schema[i].rules, body[schema[i].field])

\* The handler without the check of the owner.
updateApplicationOfAnyUser(store, user, id, body, now) ==
    IF id \notin DOMAIN store
    THEN [status |-> 404, store |-> store]
    ELSE [status |-> 200,
          store |-> [store EXCEPT ![id] =
                        [@ EXCEPT !.status = body.status.text,
                                  !.statusUpdatedAt = now,
                                  !.notes = IF IsTruthy(body.notes)
                                            THEN body.notes ELSE @]]]

\* The route handler, after authRequired and validateInput have passed:
\* findById, the 404 and 403 errors, the assignments and save().
updateApplication(store, user, id, body, now) ==
    IF id \notin DOMAIN store
    THEN [status |-> 404, store |-> store]
    ELSE IF store[id].user # user
    THEN [status |-> 403, store |-> store]
    ELSE [status |-> 200,
          store |-> [store EXCEPT ![id] =
                        [@ EXCEPT !.status = body.status.text,
                                  !.statusUpdatedAt = now,
                                  !.notes = IF IsTruthy(body.notes)
                                            THEN body.notes ELSE @]]]

\* authRequired, validateInput and the handler, in the order of the route.
putApplication(store, token, id, body, now) ==
    IF token = "none"
    THEN [status |-> 401, store |-> store]
    ELSE IF ~validateInput(UpdateSchema, body)
    THEN [status |-> 400, store |-> store]
    ELSE updateApplication(store, token, id, body, now)

ApplicationUsers == {"user1", "user2"}
ApplicationIds == {"app1", "app2", "app3"}
StatusInputs ==
    {Undefined, StringValue(<<"h", "i", "r", "e", "d">>),
     StringValue(<<"o", "f", "f", "e", "r">>)}
NotesInputs ==
    {Undefined, StringValue(<<>>), StringValue(<<"o", "k">>),
     NumberValue(IntNum(7)), StringValue(<<"l", "o", "n", "g">>)}

\* Two stored applications, one of each user; app3 does not exist.
InitApplications ==
    /\ CallIdle
    /\ clock = 0
    /\ rateLimitStore = <<>>
    /\ savedAnswers = <<>>
    /\ responses = <<>>
    /\ applications =
         [id \in {"app1", "app2"} |->
             [user |-> IF id = "app1" THEN "user1" ELSE "user2",
              status |-> <<"a", "p", "p", "l", "i", "e", "d">>,
              statusUpdatedAt |-> 0,
              notes |-> Undefined]]

\* One PUT /api/applications/:id; responses keeps the latest response, with
\* the request it answers.
PutApplication ==
    /\ \E token \in ApplicationUsers \cup {"none"}, id \in ApplicationIds,
          status \in StatusInputs, notes \in NotesInputs :
        LET body == [status |-> status, notes |-> notes]
            result == putApplication(applications, token, id, body, clock)
        IN  /\ applications' = result.store
            /\ responses' = <<[token |-> token, id |-> id, body |-> body,
                               time |-> clock, status |-> result.status]>>
    /\ UNCHANGED <<callVars, clock, rateLimitStore, savedAnswers>>

NextApplications == PutApplication \/ Tick

SpecApplications == InitApplications /\ [][NextApplications]_vars

\* The three conditions of the claim, for a request and the store it meets.
StatusIsListed(request) ==
    /\ request.body.status.kind = "string"
    /\ request.body.status.text \in ApplicationStatuses
ApplicationExists(request, store) == request.id \in DOMAIN store
BelongsToRequester(request, store) ==
    /\ ApplicationExists(request, store)
    /\ request.token # "none"
    /\ store[request.id].user = request.token

NotesAreValid(request) ==
    \/ request.body.notes.kind \in {"undefined", "null"}
    \/ /\ request.body.notes.kind = "string"
       /\ Len(request.body.notes.text) <= NotesMaxLength

\* The status codes the claim gives to the conditions a request fails.
CodesOfFailedConditions(request, store) ==
    (IF StatusIsListed(request) THEN {} ELSE {400})
    \cup (IF ApplicationExists(request, store) THEN {} ELSE {404})
    \cup (IF ApplicationExists(request, store) /\ ~BelongsToRequester(request, store)
          THEN {403} ELSE {})

C26_Witness ==
    /\ Len(responses) = 1
    /\ responses[1].status = 403
    /\ responses[1].id = "app2"
    /\ responses[1].token = "user1"
    /\ applications["app2"].statusUpdatedAt = 0
    /\ clock > 0

\* The owner changed the status and the notes of the application.
C26_WitnessUpdated ==
    /\ Len(responses) = 1
    /\ responses[1].status = 200
    /\ applications["app1"].status = <<"o", "f", "f", "e", "r">>
    /\ applications["app1"].notes = StringValue(<<"o", "k">>)
    /\ applications["app1"].statusUpdatedAt > 0

\* A status that is not listed is answered 400, also for an application
\* that does not exist.
C26_WitnessInvalid ==
    /\ Len(responses) = 1
    /\ responses[1].status = 400
    /\ responses[1].id = "app3"
    /\ responses[1].body.status = StringValue(<<"h", "i", "r", "e", "d">>)

-----------------------------------------------------------------------------
(* calculateRecency: the score against the age of the posting.             *)

\* The score, at the time of the call, of a posting that is the given number
\* of hours older than the one of the call.
ScoreOfOlderPosting(hours) ==
    calculateRecency(<<args.jobPostedDate[1] - hours>>, args.now)

\* C27: the recency sub-score never increases as a posting gets older: a
\* posting that is an hour, a day or MaxAgeGap days older than another one
\* scores less than or equal to it (so a job older than 90 days scores no
\* more than one that is 61 to 90 days old).
C27_NeverIncreasesWithAge ==
    (RecencyDone /\ args.jobPostedDate # <<>>) =>
        \A days \in 0..MaxAgeGap :
            /\ NumLeq(ScoreOfOlderPosting(days * HoursPerDay), ret[1])
            /\ NumLeq(ScoreOfOlderPosting(1), ret[1])

\* A posting 90 days old scores 50, the one a day older scores 100 - 91/3.
C27_OlderScoresHigher ==
    /\ RecencyDone
    /\ args.jobPostedDate # <<>>
    /\ WholeDaysSincePosting = 90
    /\ ret[1] = IntNum(50)
    /\ ScoreOfOlderPosting(HoursPerDay) = Num(209, 3)

\* Apart from the step from the 61-to-90-day band to the days after it, the
\* score never increases with age: it does not between postings that are
\* both at most 90 days old, nor between postings that are both older.
C27_NeverIncreasesWithinBands ==
    (RecencyDone /\ args.jobPostedDate # <<>>) =>
        \A days \in 0..MaxAgeGap :
            (WholeDaysSincePosting > 90 \/ WholeDaysSincePosting + days <= 90)
                => NumLeq(ScoreOfOlderPosting(days * HoursPerDay), ret[1])

-----------------------------------------------------------------------------
(* improveAnswer: the range of the confidence.                             *)

\* improveAnswer on the answers of both kinds, pieces and whole sentences,
\* with every job description.
InitConfidence ==
    /\ pc = "call"
    /\ fn = "improveAnswer"
    /\ args \in [originalAnswer : Concats(AnswerPieces, MaxAnswerPieces)
                                      \cup SentenceAnswers,
                 jobDescription : SentenceJobDescriptions]
    /\ ret = <<>>
    /\ ServerIdle

CallImproveForConfidence ==
    /\ pc = "call"
    /\ fn = "improveAnswer"
    /\ ret' = <<improveAnswer(args.originalAnswer, args.jobDescription)>>
    /\ pc' = "done"
    /\ UNCHANGED <<fn, args, serverVars>>

NextConfidence == CallImproveForConfidence

SpecConfidence == InitConfidence /\ [][NextConfidence]_vars

\* C28: for every non-empty answer and every job description the confidence
\* of improveAnswer is an integer from 20 to 95, so the final clamp to
\* [0,100] leaves it as it is, and the message quotes the confidence of the
\* data.
C28_ConfidenceRange ==
    ImproveDone =>
        /\ ret[1].data.confidence \in 20..95
        /\ ret[1].message =
              "Answer improved. Confidence: " \o ToString(ret[1].data.confidence) \o "%"

\* The least confidence: no job skill mentioned and the safety check reverted.
C28_Witness ==
    /\ ImproveDone
    /\ ret[1].data.confidence = 20
    /\ ret[1].message = "Answer improved. Confidence: 20%"

\* The greatest confidence: sentences reordered and three or more job
\* skills mentioned.
C28_WitnessHighest ==
    /\ ImproveDone
    /\ ret[1].data.confidence = 95
    /\ ret[1].message = "Answer improved. Confidence: 95%"

-----------------------------------------------------------------------------
(* rankJobs and remodelResume: the arguments after the call.               *)

\* The fields of a job, read from a ranked entry.
JobFieldsOf(entry, job) == [f \in DOMAIN job |-> entry[f]]

\* As if sort were applied to the array of the argument: the jobs in the
\* order of the ranking.
jobsSortedInPlace(jobs, ranked) ==
    [i \in 1..Len(jobs) |-> JobFieldsOf(ranked[i], jobs[i])]

\* The array of the argument after the call: jobs.map(...) returns a new
\* array of new objects ({ ...job, ... }), which sort(...) orders in place
\* and the second map copies again; nothing is written to the argument.
jobsAfterRankJobs(jobs, ranked) == jobs

\* The resume's skill list after rankJobs: resumeSkills is only read, by
\* some(...) in calculateSkillMatch.
parsedSkillsAfterRankJobs(userResume) == userResume.parsedSkills

\* The resume's skill list after remodelResume: uniq(...) and
\* [...originalSkills] are new arrays, and sort(...) orders the second.
parsedSkillsAfterRemodel(resume, orderedSkills) == resume.parsedSkills

FrameWeightMaps == {m \in CustomWeightMaps : Cardinality(DOMAIN m) <= 1}

InitFrame ==
    /\ pc = "call"
    /\ ret = <<>>
    /\ \/ /\ fn = "rankJobs"
          /\ args \in [jobs : JobLists,
                       userResume : {RankResume},
                       userLocation : {<<"P","a","r","i","s",","," ","F","R">>},
                       customWeights : FrameWeightMaps,
                       now : {Now}]
       \/ /\ fn = "remodelResume"
          /\ args \in [resume : [parsedSkills : SeqsUpTo(RemodelSkillNames, MaxParsedSkills)],
                       jobDescription : RemodelJobDescriptions]
    /\ ServerIdle

\* rankJobs, with what it leaves in its arguments.
RankJobsOnArguments ==
    /\ pc = "call"
    /\ fn = "rankJobs"
    /\ ret' = <<rankJobs(args.jobs, args.userResume, args.userLocation,
                          args.customWeights, args.now)>>
    /\ args' = [args EXCEPT
                  !.jobs = jobsAfterRankJobs(args.jobs, ret'[1]),
                  !.userResume.parsedSkills =
                      parsedSkillsAfterRankJobs(args.userResume)]
    /\ pc' = "done"
    /\ UNCHANGED <<fn, serverVars>>

\* remodelResume, with what it leaves in its argument.
RemodelResumeOnArguments ==
    /\ pc = "call"
    /\ fn = "remodelResume"
    /\ ret' = <<remodelResume(args.resume, args.jobDescription)>>
    /\ args' = [args EXCEPT
                  !.resume.parsedSkills =
                      parsedSkillsAfterRemodel(args.resume,
                                               ret'[1].data.remodeled.skills)]
    /\ pc' = "done"
    /\ UNCHANGED <<fn, serverVars>>

NextFrame == RankJobsOnArguments \/ RemodelResumeOnArguments

SpecFrame == InitFrame /\ [][NextFrame]_vars

C29_WitnessRemodel ==
    /\ pc = "done"
    /\ fn = "remodelResume"
    /\ ret[1].data.remodeled.skills # args.resume.parsedSkills
    /\ ret[1].data.diff.skillsChanges.reordered

-----------------------------------------------------------------------------
(* User.applicationAnswers and POST /api/ai/improve-answer                 *)

\* versionId = `v${Date.now()}`
versionIdAt(now) == StringValue(<<"v", ToString(now)>>)

\* this.applicationAnswers.find((a) => a.question === question): the
\* position of the first document of the question, 0 when there is none.
findAnswerDoc(answers, question) ==
    IF \E i \in 1..Len(answers) : answers[i].question = question
    THEN CHOOSE i \in 1..Len(answers) :
            /\ answers[i].question = question
            /\ \A j \in 1..(i - 1) : answers[j].question # question
    ELSE 0

\* answerDoc.versions.find((v) => v.versionId === versionId): the first
\* version of that id, Undefined when there is none.
findVersion(versions, versionId) ==
    IF \E i \in 1..Len(versions) : versions[i].versionId = versionId
    THEN versions[CHOOSE i \in 1..Len(versions) :
                     /\ versions[i].versionId = versionId
                     /\ \A j \in 1..(i - 1) : versions[j].versionId # versionId]
    ELSE Undefined

\* UserSchema.methods.getAnswer: the active version, or null.
getAnswer(answers, question) ==
    LET at == findAnswerDoc(answers, question)
    IN  IF at = 0 THEN Null
        ELSE IF ~IsTruthy(answers[at].activeVersionId) THEN Null
        ELSE LET version == findVersion(answers[at].versions,
                                        answers[at].activeVersionId)
             IN  IF version = Undefined THEN Null ELSE version

\* UserSchema.methods.setAnswer(question, text, isAIImproved,
\* originalVersionId), called at the clock reading now: the answers after it.
setAnswer(answers, question, text, isAIImproved, originalVersionId, now) ==
    LET versionId == versionIdAt(now)
        found == findAnswerDoc(answers, question)
        docs == IF found = 0
                THEN Append(answers, [question |-> question, versions |-> <<>>,
                                      activeVersionId |-> versionId])
                ELSE answers
        at == IF found = 0 THEN Len(docs) ELSE found
    IN  [docs EXCEPT ![at] =
            [@ EXCEPT !.versions = Append(@, [versionId |-> versionId,
                                              text |-> text,
                                              isAIImproved |-> isAIImproved,
                                              originalVersionId |-> originalVersionId]),
                      !.activeVersionId = versionId]]

\* UserSchema.methods.rollbackAnswer: what it returns and the answers after.
rollbackAnswer(answers, question) ==
    LET at == findAnswerDoc(answers, question)
        refused == [returned |-> FALSE, answers |-> answers]
    IN  IF at = 0 THEN refused
        ELSE IF ~IsTruthy(answers[at].activeVersionId) THEN refused
        ELSE LET activeVersion == findVersion(answers[at].versions,
                                              answers[at].activeVersionId)
             IN  IF activeVersion = Undefined THEN refused
                 ELSE IF ~IsTruthy(activeVersion.isAIImproved) THEN refused
                 ELSE IF ~IsTruthy(activeVersion.originalVersionId) THEN refused
                 ELSE [returned |-> TRUE,
                       answers |-> [answers EXCEPT ![at].activeVersionId =
                                       activeVersion.originalVersionId]]

\* minLength of question (10) and jobDescription (50), scaled.
QuestionMinLength == 2
JobDescriptionMinLength == 3

\* The schema of POST /improve-answer (the maxLength rules, 1000 and 50000,
\* are beyond every text of the model).
ImproveSchema ==
    <<[field |-> "question",
       rules |-> [required |-> TRUE, type |-> "string",
                  minLength |-> QuestionMinLength, maxLength |-> 0, enum |-> {}]],
      [field |-> "jobDescription",
       rules |-> [required |-> TRUE, type |-> "string",
                  minLength |-> JobDescriptionMinLength, maxLength |-> 0,
                  enum |-> {}]]>>

\* The arguments the route hands to setAnswer: the text and one object; the
\* fourth parameter takes its default, null.
improveRouteSetAnswer(answers, question, improved, currentAnswer, now) ==
    setAnswer(answers, question, improved,
              ObjectValue([isAIImproved |-> BooleanValue(TRUE),
                           originalVersionId |-> currentAnswer.versionId]),
              Null, now)

\* The end of the handler: for a confident and different text setAnswer and
\* save(); the answer to the request is 200 in both cases.
storeImprovement(answers, question, currentAnswer, improvement, now) ==
    IF /\ improvement.data.confidence >= 50
       /\ improvement.data.improved # currentAnswer.text
    THEN [status |-> 200,
          answers |-> improveRouteSetAnswer(answers, question,
                                            improvement.data.improved,
                                            currentAnswer, now),
          stored |-> TRUE]
    ELSE [status |-> 200, answers |-> answers, stored |-> FALSE]

\* POST /improve-answer after the auth middleware: validateInput, getAnswer,
\* improveAnswer and the storing. answers is req.user.applicationAnswers
\* when the handler is done, stored tells whether save() was called.
improveAnswerRoute(answers, body, now) ==
    IF ~validateInput(ImproveSchema, body)
    THEN [status |-> 400, answers |-> answers, stored |-> FALSE]
    ELSE LET currentAnswer == getAnswer(answers, body.question.text)
         IN  IF currentAnswer = Null
             THEN [status |-> 404, answers |-> answers, stored |-> FALSE]
             ELSE storeImprovement(answers, body.question.text, currentAnswer,
                                   improveAnswer(currentAnswer.text,
                                                 body.jobDescription.text),
                                   now)

MaxVersions == 3
MaxAnswerRequests == 3
Questions == {<<"W", "h", "y", "?">>, <<"H", "o", "w", "?">>}
QuestionInputs == {StringValue(q) : q \in Questions} \cup {StringValue(<<"?">>)}
RouteJobDescriptions ==
    {StringValue(<<"G","o">>),
     StringValue(<<"W","e"," ","u","s","e"," ","G","o">>)}
StoredTexts ==
    {<<"x", ".", " ", "G", "o", ".">>,
     <<"x", ".", " ", "G", "o", ".", " ", "H", "i", "?">>}

\* A user with one stored answer, written by the user before the server
\* clock starts.
InitAnswers ==
    /\ CallIdle
    /\ clock = 0
    /\ rateLimitStore = <<>>
    /\ applications = <<>>
    /\ responses = <<>>
    /\ \E text \in StoredTexts :
           savedAnswers = <<[question |-> <<"W", "h", "y", "?">>,
                             versions |-> <<[versionId |-> StringValue(<<"v", "first">>),
                                            text |-> text,
                                            isAIImproved |-> BooleanValue(FALSE),
                                            originalVersionId |-> Null]>>,
                             activeVersionId |-> StringValue(<<"v", "first">>)]>>

\* The text getAnswer gives for a question, <<>> when it gives null.
ActiveText(answers, question) ==
    LET version == getAnswer(answers, question)
    IN  IF version = Null THEN <<>> ELSE version.text

\* One POST /api/ai/improve-answer of the user. save() validates the new
\* version against AnswerVersionSchema, where isAIImproved is a Boolean and
\* the value set is an object: the document is stored either as it was set
\* or not at all (the request then fails with 500).
PostImproveAnswer ==
    /\ Len(responses) < MaxAnswerRequests
    /\ \A i \in 1..Len(savedAnswers) : Len(savedAnswers[i].versions) < MaxVersions
    /\ \E question \in QuestionInputs, jobDescription \in RouteJobDescriptions,
          saved \in BOOLEAN :
        \E result \in {improveAnswerRoute(savedAnswers,
                            [question |-> question, jobDescription |-> jobDescription],
                            clock)} :
            /\ result.stored \/ saved
            /\ savedAnswers' = IF result.stored /\ saved THEN result.answers
                               ELSE savedAnswers
            /\ responses' = Append(responses,
                   [route |-> "improve-answer",
                    question |-> question.text,
                    status |-> IF result.stored /\ ~saved THEN 500 ELSE result.status,
                    stored |-> result.stored /\ saved,
                    returned |-> FALSE,
                    before |-> ActiveText(savedAnswers, question.text),
                    after |-> ActiveText(savedAnswers', question.text)])
    /\ UNCHANGED <<callVars, clock, rateLimitStore, applications>>

\* user.rollbackAnswer(question), followed by save().
RollbackAnswer ==
    /\ Len(responses) < MaxAnswerRequests
    /\ \E question \in Questions :
        \E result \in {rollbackAnswer(savedAnswers, question)} :
            /\ savedAnswers' = result.answers
            /\ responses' = Append(responses,
                   [route |-> "rollbackAnswer",
                    question |-> question,
                    status |-> 200,
                    stored |-> result.returned,
                    returned |-> result.returned,
                    before |-> ActiveText(savedAnswers, question),
                    after |-> ActiveText(savedAnswers', question)])
    /\ UNCHANGED <<callVars, clock, rateLimitStore, applications>>

NextAnswers == PostImproveAnswer \/ RollbackAnswer \/ Tick

SpecAnswers == InitAnswers /\ [][NextAnswers]_vars

\* Response i is a rollback that directly follows the storing of an
\* AI-improved version of the same question by the route.
RollbackAfterImprovement(i) ==
    /\ i > 1
    /\ responses[i].route = "rollbackAnswer"
    /\ responses[i - 1].route = "improve-answer"
    /\ responses[i - 1].stored
    /\ responses[i - 1].question = responses[i].question

\* C30: after the improve-answer route has stored an AI-improved version of
\* a stored answer, rollbackAnswer for that question returns true and
\* getAnswer gives again the text that was active before the improvement;
\* and at every point an activeVersionId that is not null identifies a
\* version of the question's version list.
C30_RollbackRestores ==
    /\ \A i \in 1..Len(responses) :
           RollbackAfterImprovement(i) =>
               /\ responses[i].returned
               /\ responses[i].after = responses[i - 1].before
    /\ \A i \in 1..Len(savedAnswers) :
           IsTruthy(savedAnswers[i].activeVersionId) =>
               \E k \in 1..Len(savedAnswers[i].versions) :
                   savedAnswers[i].versions[k].versionId = savedAnswers[i].activeVersionId

\* The route stored an improved version, and the rollback that followed
\* returned false and left the improved text active.
C30_RollbackRefused ==
    \E i \in 1..Len(responses) :
        /\ RollbackAfterImprovement(i)
        /\ ~responses[i].returned
        /\ responses[i].after = responses[i - 1].after
        /\ responses[i].after # responses[i - 1].before

\* What the code does: every version the route stores has no original
\* version (originalVersionId is null, the options object is in
\* isAIImproved), so no rollback ever returns true; the active version is
\* always one of the list.
C30_NoRollbackEverSucceeds ==
    /\ \A i \in 1..Len(responses) :
           responses[i].route = "rollbackAnswer" => ~responses[i].returned
    /\ \A i \in 1..Len(savedAnswers) :
           /\ \A k \in 1..Len(savedAnswers[i].versions) :
                  savedAnswers[i].versions[k].originalVersionId = Null
           /\ \E k \in 1..Len(savedAnswers[i].versions) :
                  savedAnswers[i].versions[k].versionId = savedAnswers[i].activeVersionId

====
